---- MODULE Spec2Model ----
(***************************************************************************)
(* The unified-diff patch engine of src/tests/diff-application.test.ts     *)
(* (class DiffTester): normalize -> parse -> validate -> apply -> rejoin.  *)
(* Text is a sequence of one-character strings, a line is text without LF. *)
(***************************************************************************)
EXTENDS Integers, Sequences, FiniteSets

\* ------------------------------------------------------------------ text

LF == "\n"
CR == "\r"
SP == " "

\* The value JavaScript gives for an array element that is not there.  It is
\* no text: its one element is not a character.
undefined == <<"undefined">>

\* No normalization at all.
keepCRLF(s) == s

\* replace without the g flag: the first CRLF only.
replaceFirstCRLF(s) ==
  IF \E i \in 1..(Len(s) - 1) : s[i] = CR /\ s[i + 1] = LF
  THEN LET k == CHOOSE i \in 1..(Len(s) - 1) :
                  /\ s[i] = CR /\ s[i + 1] = LF
                  /\ \A j \in 1..(i - 1) : ~(s[j] = CR /\ s[j + 1] = LF)
       IN SubSeq(s, 1, k - 1) \o SubSeq(s, k + 1, Len(s))
  ELSE s

RECURSIVE replaceCRLF(_)
\* String.prototype.replace(/\r\n/g, '\n'): one left-to-right pass.
replaceCRLF(s) ==
  IF s = <<>> THEN <<>>
  ELSE IF Len(s) >= 2 /\ s[1] = CR /\ s[2] = LF
       THEN <<LF>> \o replaceCRLF(SubSeq(s, 3, Len(s)))
       ELSE <<s[1]>> \o replaceCRLF(Tail(s))

RECURSIVE splitLF(_)
\* String.prototype.split('\n'): always at least one piece.
splitLF(s) ==
  IF \A i \in 1..Len(s) : s[i] # LF THEN <<s>>
  ELSE LET k == CHOOSE i \in 1..Len(s) :
                   s[i] = LF /\ \A j \in 1..(i - 1) : s[j] # LF
       IN <<SubSeq(s, 1, k - 1)>> \o splitLF(SubSeq(s, k + 1, Len(s)))

\* The split without the test for the empty string: '' is one empty line.
splitAlways(s) == splitLF(s)

\* originalLines of applyUnifiedDiff: the empty string is zero lines.
splitOriginal(s) == IF s = <<>> THEN <<>> ELSE splitLF(s)

RECURSIVE joinLF(_)
\* Array.prototype.join('\n'): an undefined element is joined as ''.
joinLF(lines) ==
  IF lines = <<>> THEN <<>>
  ELSE LET h == IF lines[1] = undefined THEN <<>> ELSE lines[1]
       IN IF Len(lines) = 1 THEN h ELSE h \o <<LF>> \o joinLF(Tail(lines))

startsWith(line, prefix) ==
  Len(line) >= Len(prefix) /\ SubSeq(line, 1, Len(prefix)) = prefix

\* line.substring(1)
substring1(line) == SubSeq(line, 2, Len(line))

WhiteSpace == {SP, CR, LF, "\t"}

\* String.prototype.trim(): white space off both ends.
trim(s) ==
  LET keep == {i \in 1..Len(s) : s[i] \notin WhiteSpace}
  IN IF keep = {} THEN <<>>
     ELSE LET lo == CHOOSE i \in keep : \A j \in keep : i <= j
              hi == CHOOSE i \in keep : \A j \in keep : j <= i
          IN SubSeq(s, lo, hi)

Digits == <<"0", "1", "2", "3", "4", "5", "6", "7", "8", "9">>

IsDigit(ch) == \E d \in 1..Len(Digits) : Digits[d] = ch

DigitValue(ch) == (CHOOSE d \in 1..Len(Digits) : Digits[d] = ch) - 1

RECURSIVE parseInt(_)
\* parseInt of a string of decimal digits.
parseInt(ds) ==
  IF ds = <<>> THEN 0
  ELSE 10 * parseInt(SubSeq(ds, 1, Len(ds) - 1)) + DigitValue(ds[Len(ds)])

\* ---------------------------------------------------------------- parser

\* How many digits stand at position p of s and after it: what \d+ takes.
RECURSIVE DigitRun(_, _)
DigitRun(s, p) ==
  IF p <= Len(s) /\ IsDigit(s[p]) THEN 1 + DigitRun(s, p + 1) ELSE 0

LitAt(s, p, lit) ==
  p + Len(lit) - 1 <= Len(s) /\ SubSeq(s, p, p + Len(lit) - 1) = lit

NoMatch == [matched |-> FALSE, g1 |-> <<>>, g2 |-> <<>>, g3 |-> <<>>, g4 |-> <<>>]

\* (\d+)(?:,(\d+))? at position a, the digit run ending before position b:
\* the two groups and the position after them.  A group that did not take
\* part is <<>> (JavaScript's undefined, falsy like '').  What follows a digit
\* run in the pattern is never a digit, so the greedy choice is the only one
\* that can match.
optionalCount(line, a, b) ==
  LET n2 == IF LitAt(line, b, <<",">>) THEN DigitRun(line, b + 1) ELSE 0
  IN [num  |-> SubSeq(line, a, b - 1),
      opt  |-> IF n2 > 0 THEN SubSeq(line, b + 1, b + n2) ELSE <<>>,
      next |-> IF n2 > 0 THEN b + 1 + n2 ELSE b]

\* ' \+(\d+)(?:,(\d+))? @@' at position c, after the old numbers.
matchNew(line, old, c) ==
  IF LitAt(line, c, <<SP, "+">>) /\ DigitRun(line, c + 2) > 0
  THEN LET new == optionalCount(line, c + 2, c + 2 + DigitRun(line, c + 2))
       IN IF LitAt(line, new.next, <<SP, "@", "@">>)
          THEN [matched |-> TRUE, g1 |-> old.num, g2 |-> old.opt,
                g3 |-> new.num, g4 |-> new.opt]
          ELSE NoMatch
  ELSE NoMatch

\* /@@ -(\d+)(?:,(\d+))? \+(\d+)(?:,(\d+))? @@/ tried at position p.
matchHeaderAt(line, p) ==
  IF LitAt(line, p, <<"@", "@", SP, "-">>) /\ DigitRun(line, p + 4) > 0
  THEN LET old == optionalCount(line, p + 4, p + 4 + DigitRun(line, p + 4))
       IN matchNew(line, old, old.next)
  ELSE NoMatch

\* line.match(...): the pattern is not anchored, the leftmost match wins.
matchHeader(line) ==
  LET at == {p \in 1..Len(line) : matchHeaderAt(line, p).matched}
  IN IF at = {} THEN NoMatch
     ELSE matchHeaderAt(line, CHOOSE p \in at : \A q \in at : p <= q)

\* The currentHunk object a header opens.
newHunk(m) ==
  [oldStart |-> parseInt(m.g1) - 1,
   oldCount |-> parseInt(IF m.g2 # <<>> THEN m.g2 ELSE <<"1">>),
   newStart |-> parseInt(m.g3) - 1,
   newCount |-> parseInt(IF m.g4 # <<>> THEN m.g4 ELSE <<"1">>),
   lines    |-> <<>>]

IsContentLine(line) ==
  startsWith(line, <<SP>>) \/ startsWith(line, <<"-">>) \/ startsWith(line, <<"+">>)

diffLineOf(line) ==
  [type    |-> IF startsWith(line, <<SP>>) THEN "context"
               ELSE IF startsWith(line, <<"-">>) THEN "delete" ELSE "add",
   content |-> substring1(line)]

\* The parser's loop state: hunks flushed so far, the open hunk (cur, when
\* open), and the marker line that did not match the pattern, if any.
ParseStart == [hunks |-> <<>>, open |-> FALSE, cur |-> newHunk(NoMatch),
               failed |-> FALSE, badLine |-> <<>>]

\* A parser that passes over a marker line the pattern does not match.
parseLineSkipMalformed(st, line) ==
  IF startsWith(line, <<"@", "@">>)
  THEN IF ~matchHeader(line).matched THEN st
       ELSE [st EXCEPT !.hunks = IF st.open THEN Append(st.hunks, st.cur) ELSE st.hunks,
                       !.open = TRUE, !.cur = newHunk(matchHeader(line))]
  ELSE IF st.open /\ IsContentLine(line)
  THEN [st EXCEPT !.cur.lines = Append(@, diffLineOf(line))]
  ELSE st

\* A parser that closes the open hunk at a line that is neither a header
\* nor a content line.
parseLineCloseOnOther(st, line) ==
  IF st.failed THEN st
  ELSE IF startsWith(line, <<"@", "@">>)
  THEN IF ~matchHeader(line).matched
       THEN [st EXCEPT !.hunks = IF st.open THEN Append(st.hunks, st.cur) ELSE st.hunks,
                       !.failed = TRUE, !.badLine = line]
       ELSE [st EXCEPT !.hunks = IF st.open THEN Append(st.hunks, st.cur) ELSE st.hunks,
                       !.open = TRUE, !.cur = newHunk(matchHeader(line))]
  ELSE IF st.open /\ IsContentLine(line)
  THEN [st EXCEPT !.cur.lines = Append(@, diffLineOf(line))]
  ELSE IF st.open
  THEN [st EXCEPT !.hunks = Append(st.hunks, st.cur), !.open = FALSE]
  ELSE st

\* A parser that takes content lines before the first header as a hunk of
\* its own.
parseLineOpenWithoutHeader(st, line) ==
  IF st.failed THEN st
  ELSE IF startsWith(line, <<"@", "@">>)
  THEN IF ~matchHeader(line).matched
       THEN [st EXCEPT !.hunks = IF st.open THEN Append(st.hunks, st.cur) ELSE st.hunks,
                       !.failed = TRUE, !.badLine = line]
       ELSE [st EXCEPT !.hunks = IF st.open THEN Append(st.hunks, st.cur) ELSE st.hunks,
                       !.open = TRUE, !.cur = newHunk(matchHeader(line))]
  ELSE IF IsContentLine(line)
  THEN [st EXCEPT !.open = TRUE, !.cur.lines = Append(@, diffLineOf(line))]
  ELSE st

\* One turn of the for loop of parseUnifiedDiffHunks.
parseLine(st, line) ==
  IF st.failed THEN st
  ELSE IF startsWith(line, <<"@", "@">>)
  THEN LET flushed == IF st.open THEN Append(st.hunks, st.cur) ELSE st.hunks
           m == matchHeader(line)
       IN IF ~m.matched
          THEN [st EXCEPT !.hunks = flushed, !.failed = TRUE, !.badLine = line]
          ELSE [st EXCEPT !.hunks = flushed, !.open = TRUE, !.cur = newHunk(m)]
  ELSE IF st.open /\ IsContentLine(line)
  THEN [st EXCEPT !.cur.lines = Append(@, diffLineOf(line))]
  ELSE st

RECURSIVE parseLoop(_, _)
parseLoop(st, diffLines) ==
  IF diffLines = <<>> THEN st
  ELSE parseLoop(parseLine(st, diffLines[1]), Tail(diffLines))

\* parseUnifiedDiffHunks: the hunks, or the throw of 'Invalid hunk header'.
parseUnifiedDiffHunks(diffLines) ==
  LET st == parseLoop(ParseStart, diffLines)
  IN [failed  |-> st.failed,
      badLine |-> st.badLine,
      hunks   |-> IF st.failed THEN <<>>
                  ELSE IF st.open THEN Append(st.hunks, st.cur) ELSE st.hunks]

\* ------------------------------------------------------------- validator

\* originalLines[i] with a zero-based i, as JavaScript evaluates it.
lineAt(lines, i) == IF i >= 0 /\ i < Len(lines) THEN lines[i + 1] ELSE undefined

\* A validator that compares context lines only and lets delete lines pass.
RECURSIVE validateFromContextOnly(_, _, _, _, _)
validateFromContextOnly(originalLines, hunk, mode, k, originalIndex) ==
  IF k > Len(hunk.lines) THEN "true"
  ELSE IF hunk.lines[k].type = "delete"
  THEN validateFromContextOnly(originalLines, hunk, mode, k + 1, originalIndex + 1)
  ELSE IF hunk.lines[k].type = "context"
  THEN IF originalIndex >= Len(originalLines) THEN "false"
       ELSE IF lineAt(originalLines, originalIndex) = undefined
       THEN (IF mode = "strict" THEN "false" ELSE "throw")
       ELSE IF (IF mode = "strict"
                THEN lineAt(originalLines, originalIndex) = hunk.lines[k].content
                ELSE trim(lineAt(originalLines, originalIndex)) = trim(hunk.lines[k].content))
       THEN validateFromContextOnly(originalLines, hunk, mode, k + 1, originalIndex + 1)
       ELSE "false"
  ELSE validateFromContextOnly(originalLines, hunk, mode, k + 1, originalIndex)

\* The walk of validateHunk from hunk line k on with the cursor at
\* originalIndex: "true", "false", or "throw" for the TypeError raised by
\* undefined.trim() when the cursor is negative.
RECURSIVE validateFrom(_, _, _, _, _)
validateFrom(originalLines, hunk, mode, k, originalIndex) ==
  IF k > Len(hunk.lines) THEN "true"
  ELSE IF hunk.lines[k].type \in {"context", "delete"}
  THEN IF originalIndex >= Len(originalLines) THEN "false"
       ELSE LET originalLine == lineAt(originalLines, originalIndex)
                hunkLine == hunk.lines[k].content
            IN IF mode = "strict"
               THEN IF originalLine = hunkLine
                    THEN validateFrom(originalLines, hunk, mode, k + 1, originalIndex + 1)
                    ELSE "false"
               ELSE IF originalLine = undefined THEN "throw"
               ELSE IF trim(originalLine) = trim(hunkLine)
                    THEN validateFrom(originalLines, hunk, mode, k + 1, originalIndex + 1)
                    ELSE "false"
  ELSE validateFrom(originalLines, hunk, mode, k + 1, originalIndex)

\* A validator whose cursor starts at the first line instead of oldStart.
validateHunkFromZero(originalLines, hunk, mode) ==
  validateFrom(originalLines, hunk, mode, 1, 0)

validateHunk(originalLines, hunk, mode) ==
  validateFrom(originalLines, hunk, mode, 1, hunk.oldStart)

\* --------------------------------------------------------------- applier

\* An applier without its first loop: nothing is copied before the hunk.
copyNothingBefore(lines, hunk) == <<>>

\* The first loop of applyHunk: the lines below oldStart, undefined where
\* oldStart lies past the end of lines.
copyBefore(lines, hunk) ==
  [i \in 1..(IF hunk.oldStart > 0 THEN hunk.oldStart ELSE 0) |-> lineAt(lines, i - 1)]

\* An applier that pushes the diff's text for a context line.
RECURSIVE walkHunkDiffText(_, _, _, _)
walkHunkDiffText(lines, hunk, k, originalIndex) ==
  IF k > Len(hunk.lines) THEN [out |-> <<>>, cursor |-> originalIndex]
  ELSE IF hunk.lines[k].type = "delete"
  THEN walkHunkDiffText(lines, hunk, k + 1, originalIndex + 1)
  ELSE LET r == walkHunkDiffText(lines, hunk, k + 1,
                  IF hunk.lines[k].type = "context" THEN originalIndex + 1
                  ELSE originalIndex)
       IN [r EXCEPT !.out = <<hunk.lines[k].content>> \o @]

\* The second loop of applyHunk from hunk line k on: what it pushes, and the
\* cursor it ends with.
RECURSIVE walkHunk(_, _, _, _)
walkHunk(lines, hunk, k, originalIndex) ==
  IF k > Len(hunk.lines) THEN [out |-> <<>>, cursor |-> originalIndex]
  ELSE LET hunkLine == hunk.lines[k]
       IN IF hunkLine.type = "context"
          THEN LET r == walkHunk(lines, hunk, k + 1, originalIndex + 1)
               IN [r EXCEPT !.out = <<lineAt(lines, originalIndex)>> \o @]
          ELSE IF hunkLine.type = "delete"
          THEN walkHunk(lines, hunk, k + 1, originalIndex + 1)
          ELSE LET r == walkHunk(lines, hunk, k + 1, originalIndex)
               IN [r EXCEPT !.out = <<hunkLine.content>> \o @]

\* An applier that takes the end of the old region from the header's
\* oldCount instead of the cursor of the walk.
applyHunkByOldCount(lines, hunk) ==
  LET before == copyBefore(lines, hunk)
      w == walkHunk(lines, hunk, 1, Len(before))
  IN before \o w.out \o SubSeq(lines, Len(before) + hunk.oldCount + 1, Len(lines))

applyHunk(lines, hunk) ==
  LET before == copyBefore(lines, hunk)
      w == walkHunk(lines, hunk, 1, Len(before))
  IN before \o w.out \o SubSeq(lines, w.cursor + 1, Len(lines))

\* ------------------------------------------------------------ the inputs

MaxOrigLines == 2
MaxDiffLines == 4
MaxRawLen == 3
MaxCrlfDiffLines == 3

\* The line numbers the headers of the generated diffs carry: 0 gives an
\* oldStart of -1, 2 an oldStart past the end of a one-line original.
HeaderStarts == {0, 1, 2}

SeqsUpTo(S, n) == UNION {[1..k -> S] : k \in 0..n}

\* The header '@@ -n +n,1 @@' (the old count left out, the new count given).
HeaderLine(n) ==
  <<"@", "@", SP, "-", Digits[n + 1], SP, "+", Digits[n + 1], ",", "1", SP, "@", "@">>

BadHeaderLine == <<"@", "@", SP, "x", SP, "@", "@">>

\* Lines of the original: one the diffs name exactly, one they name without
\* its trailing blank.
OrigLineChoices == {<<"a">>, <<"b", SP>>}

\* Lines of a diff: headers, a context line, a delete line, an add line.
DiffLineChoices ==
  {HeaderLine(n) : n \in HeaderStarts} \cup {<<SP, "b">>, <<"-", "a">>, <<"+", "c">>}

\* Sequences of exactly k lines, a malformed header at most as the last one
\* (the parser reads nothing after it).
DiffLineSeqs(choices, k) ==
  [1..k -> choices]
    \cup (IF k = 0 THEN {}
          ELSE {Append(ls, BadHeaderLine) : ls \in [1..(k - 1) -> choices]})

\* Texts written with LF only.
OrigTexts == {joinLF(ls) : ls \in SeqsUpTo(OrigLineChoices, MaxOrigLines)}

DiffTexts ==
  UNION {{joinLF(ls) : ls \in DiffLineSeqs(DiffLineChoices, k)} : k \in 0..MaxDiffLines}

\* Texts with CR in them: every text over a, CR and LF up to MaxRawLen, and
\* diffs whose lines end in LF or CRLF, line by line.
RawTexts == SeqsUpTo({"a", CR, LF}, MaxRawLen)

EOLs == {<<LF>>, <<CR, LF>>}

RECURSIVE joinEols(_, _)
joinEols(ls, es) ==
  IF Len(ls) <= 1 THEN (IF ls = <<>> THEN <<>> ELSE ls[1])
  ELSE ls[1] \o es[1] \o joinEols(Tail(ls), Tail(es))

CrlfDiffLineChoices == {HeaderLine(1), <<SP, "a">>, <<"+", "c">>}

CrlfDiffTexts ==
  UNION {{joinEols(ls, es) : ls \in DiffLineSeqs(CrlfDiffLineChoices, k),
                             es \in [1..(k - 1) -> EOLs]} : k \in 1..MaxCrlfDiffLines}

\* Diffs with every form of header: one header, then up to MaxBodyLines
\* lines, among them lines the parser passes over and a second header.
MaxBodyLines == 2

countText(c) == IF c < 0 THEN <<>> ELSE <<",", Digits[c + 1]>>

\* The header '@@ -o,oc +n,nc @@'; a count below 0 is left out.
Header(o, oc, n, nc) ==
  <<"@", "@", SP, "-", Digits[o + 1]>> \o countText(oc)
    \o <<SP, "+", Digits[n + 1]>> \o countText(nc) \o <<SP, "@", "@">>

\* Old count, new start and new count of the first header: left out, the
\* numbers of a hunk that only adds k lines, of one that only deletes k.
HeaderNumbers ==
  {<<0 - 1, 1, 0 - 1>>}
    \cup {<<0, 1, k>> : k \in 1..MaxBodyLines}
    \cup {<<k, 0, 0>> : k \in 1..MaxBodyLines}

FirstHeaders == {Header(o, t[1], t[2], t[3]) : o \in {0, 1}, t \in HeaderNumbers}

\* '\' stands for the line '\ No newline at end of file'.
BodyLineChoices ==
  {<<"+", "c">>, <<"-", "a">>, <<"-", "b">>, <<SP, "b">>, <<>>, <<"\\">>,
   Header(2, 0 - 1, 2, 0 - 1)}

HeaderDiffTexts ==
  UNION {{joinLF(<<h>> \o body) : h \in FirstHeaders,
                                   body \in DiffLineSeqs(BodyLineChoices, k)}
         : k \in 0..MaxBodyLines}

\* --------------------------------------------------------- the call state

VARIABLES
  pc,               \* where the call of applyUnifiedDiff stands
  originalContent,  \* its first argument
  unifiedDiff,      \* its second argument
  originalLines,
  diffLines,
  hunks,
  validationMode,
  vi,               \* the hunk the validation loop is at (1-based)
  result,
  ai,               \* the i of the application loop (0-based)
  applied,          \* the hunks applyHunk was called with, in order
  outcome,          \* what the call returned or threw
  other,            \* the frame of a second call of applyUnifiedDiff, parked
  agentStateStore,  \* the store of src/app/lib/services/templateLoader.ts
  localStorage,     \* the item 'agentState' of the browser's localStorage
  rules,            \* _rules of the MessageInterceptorService instance
  messageInterceptorState,  \* the atom of the interceptor store
  interceptorStorage,       \* the item 'messageInterceptor' of localStorage
  returned          \* the last call of intercept or wouldIntercept and its value

\* The parameters and locals of one call of applyUnifiedDiff.
callVars == <<pc, originalContent, unifiedDiff, originalLines, diffLines, hunks,
              validationMode, vi, result, ai, applied, outcome>>

\* The state of the message interceptor.
interceptVars == <<rules, messageInterceptorState, interceptorStorage, returned>>

vars == <<callVars, other, agentStateStore, localStorage, interceptVars>>

NoOutcome == [kind |-> "none", text |-> <<>>, line |-> 0]
Returned(text) == [kind |-> "content", text |-> text, line |-> 0]
\* Error(`Invalid hunk header: ${line}`)
MalformedHunkHeader(line) == [kind |-> "MalformedHunkHeader", text |-> line, line |-> 0]
\* Error(`Hunk validation failed: context mismatch at line ${hunk.oldStart + 1}`)
HunkValidationFailed(n) == [kind |-> "HunkValidationFailed", text |-> <<>>, line |-> n]
\* The TypeError of undefined.trim(), which no handler of the engine catches.
TypeError == [kind |-> "TypeError", text |-> <<>>, line |-> 0]

Called(O, D) ==
  /\ pc = "start"
  /\ originalContent = O
  /\ unifiedDiff = D
  /\ originalLines = <<>>
  /\ diffLines = <<>>
  /\ hunks = <<>>
  /\ validationMode = "strict"
  /\ vi = 1
  /\ result = <<>>
  /\ ai = 0
  /\ applied = <<>>
  /\ outcome = NoOutcome

\* The frame of a call that has not taken its first step.
StartFrame(O, D) ==
  [pc |-> "start", originalContent |-> O, unifiedDiff |-> D,
   originalLines |-> <<>>, diffLines |-> <<>>, hunks |-> <<>>,
   validationMode |-> "strict", vi |-> 1, result |-> <<>>, ai |-> 0,
   applied |-> <<>>, outcome |-> NoOutcome, mixed |-> FALSE]

\* null, and a value that may be null, in the agent store.
null == <<>>
Some(x) == <<x>>

\* DEFAULT_STATE of templateLoader.ts.
DEFAULT_STATE ==
  [currentState |-> "IDLE",
   previousState |-> "null",
   currentPlan |-> null,
   executionProgress |-> [currentStepIndex |-> 0, completedSteps |-> 0,
                          totalSteps |-> 0, percentComplete |-> 0],
   messageComplexity |-> null,
   error |-> null,
   stateHistory |-> <<>>,
   settings |-> [autoPlanning |-> TRUE, complexityThreshold |-> 5,
                 debugMode |-> FALSE]]

\* ------------------------------------------------ the message interceptor
\* src/app/lib/services/messageInterceptor.ts (the rule table and intercept)
\* and src/app/lib/stores/messageInterceptor.ts (the store over it).

\* String.prototype.toLowerCase() on the letters A-Z.
toLowerCase(s) ==
  LET UpperCase == <<"A", "B", "C", "D", "E", "F", "G", "H", "I", "J", "K", "L", "M",
                     "N", "O", "P", "Q", "R", "S", "T", "U", "V", "W", "X", "Y", "Z">>
      LowerCase == <<"a", "b", "c", "d", "e", "f", "g", "h", "i", "j", "k", "l", "m",
                     "n", "o", "p", "q", "r", "s", "t", "u", "v", "w", "x", "y", "z">>
  IN  [i \in 1..Len(s) |->
         IF \E k \in 1..Len(UpperCase) : UpperCase[k] = s[i]
         THEN LowerCase[CHOOSE k \in 1..Len(UpperCase) : UpperCase[k] = s[i]]
         ELSE s[i]]

\* String.prototype.includes(p): p stands somewhere in s; '' stands in all.
includes(s, p) ==
  \E k \in 0..(Len(s) - Len(p)) : SubSeq(s, k + 1, k + Len(p)) = p

\* The pattern /^source$/i of literal characters, as the default rules have.
RegExp(source) == [regexp |-> TRUE, source |-> source]
\* A pattern that is a string.
StringPattern(source) == [regexp |-> FALSE, source |-> source]

\* isMatch of intercept (lines 141-149) on the trimmed message.
isMatch(pattern, trimmedMessage) ==
  IF pattern.regexp
  THEN toLowerCase(trimmedMessage) = toLowerCase(pattern.source)
  ELSE includes(toLowerCase(trimmedMessage), toLowerCase(pattern.source))

\* The texts of the responses, each one string.
HelpText == <<"# Nexa Help">>
ClearedText == <<"Chat history cleared. You can start a fresh conversation.">>
WillClearText == <<"Chat history will be cleared.">>
VersionText == <<"# Nexa Version Information">>
StatusText == <<"# System Status">>

DefaultId(name) == <<name>>
CustomId(n) == <<"custom-", n>>
\* rule.id.startsWith('custom-')
isCustom(id) == id[1] = "custom-"

Rule(id, pattern, action, response, handler, enabled) ==
  [id |-> id, pattern |-> pattern, action |-> action, response |-> response,
   handler |-> handler, enabled |-> enabled]

\* defaultRules of _initializeDefaultRules (lines 41-123).
defaultRules ==
  <<Rule(DefaultId("help-command"), RegExp(<<"/", "h", "e", "l", "p">>),
         "bypass", Some(HelpText), null, TRUE),
    Rule(DefaultId("status-command"), RegExp(<<"/", "s", "t", "a", "t", "u", "s">>),
         "bypass", null, Some("status"), TRUE),
    Rule(DefaultId("clear-command"), RegExp(<<"/", "c", "l", "e", "a", "r">>),
         "bypass", Some(ClearedText), Some("clear"), TRUE),
    Rule(DefaultId("version-command"),
         RegExp(<<"/", "v", "e", "r", "s", "i", "o", "n">>),
         "bypass", Some(VersionText), null, TRUE)>>

NoMetadata == [ruleId |-> null, pattern |-> null, originalMessage |-> null,
               action |-> null, clearHistory |-> FALSE]

\* { intercepted: false }
NotIntercepted ==
  [intercepted |-> FALSE, shouldBypassAI |-> null, response |-> null,
   transformedMessage |-> null, metadata |-> null]

\* rule.response || text
responseOr(rule, text) ==
  IF rule.response = null \/ rule.response = Some(<<>>) THEN text ELSE rule.response[1]

\* The handlers: the two of the default rules, and a custom one that
\* declines the message.
callHandler(handler, trimmedMessage) ==
  CASE handler = "status" ->
         [intercepted |-> TRUE, shouldBypassAI |-> Some(TRUE),
          response |-> Some(StatusText), transformedMessage |-> null,
          metadata |-> null]
    [] handler = "clear" ->
         [intercepted |-> TRUE, shouldBypassAI |-> Some(TRUE),
          response |-> Some(WillClearText), transformedMessage |-> null,
          metadata |-> Some([NoMetadata EXCEPT !.clearHistory = TRUE])]
    [] OTHER -> NotIntercepted

\* What intercept returns for the rule that matched (lines 152-190).
resultOf(rule, trimmedMessage) ==
  IF rule.handler # null THEN callHandler(rule.handler[1], trimmedMessage)
  ELSE CASE rule.action = "bypass" ->
              [intercepted |-> TRUE, shouldBypassAI |-> Some(TRUE),
               response |-> Some(responseOr(rule, <<"Command executed.">>)),
               transformedMessage |-> null,
               metadata |-> Some([NoMetadata EXCEPT !.ruleId = Some(rule.id),
                                                    !.pattern = Some(rule.pattern)])]
         [] rule.action = "transform" ->
              [intercepted |-> TRUE, shouldBypassAI |-> Some(FALSE),
               response |-> null,
               transformedMessage |-> Some(responseOr(rule, trimmedMessage)),
               metadata |-> Some([NoMetadata EXCEPT
                                    !.ruleId = Some(rule.id),
                                    !.originalMessage = Some(trimmedMessage)])]
         [] rule.action = "route" ->
              [intercepted |-> TRUE, shouldBypassAI |-> Some(TRUE),
               response |-> Some(responseOr(rule, <<"Routing command...">>)),
               transformedMessage |-> null,
               metadata |-> Some([NoMetadata EXCEPT !.ruleId = Some(rule.id),
                                                    !.action = Some("route")])]
         [] OTHER -> NotIntercepted

\* A loop that does not look at the enabled flag.
RECURSIVE interceptLoopAllRules(_, _, _)
interceptLoopAllRules(rs, trimmedMessage, i) ==
  IF i > Len(rs) THEN NotIntercepted
  ELSE IF isMatch(rs[i].pattern, trimmedMessage) THEN resultOf(rs[i], trimmedMessage)
  ELSE interceptLoopAllRules(rs, trimmedMessage, i + 1)

\* The for loop of intercept from rule i on (lines 136-191).
RECURSIVE interceptLoop(_, _, _)
interceptLoop(rs, trimmedMessage, i) ==
  IF i > Len(rs) THEN NotIntercepted
  ELSE IF ~rs[i].enabled THEN interceptLoop(rs, trimmedMessage, i + 1)
  ELSE IF isMatch(rs[i].pattern, trimmedMessage) THEN resultOf(rs[i], trimmedMessage)
  ELSE interceptLoop(rs, trimmedMessage, i + 1)

\* intercept(message) for a message that is a string (lines 130-194).
intercept(rs, message) ==
  IF message = <<>> THEN NotIntercepted
  ELSE interceptLoop(rs, trim(message), 1)

\* The rule table after addRule(rule), id being the id it makes up.
addRule(rs, rule, id) == Append(rs, [rule EXCEPT !.id = id])

\* The rule table after removeRule(id).
removeRule(rs, id) == SelectSeq(rs, LAMBDA r : r.id # id)

\* findIndex / find by id, 1-based, 0 when there is none.
ruleIndex(rs, id) ==
  IF \E i \in 1..Len(rs) : rs[i].id = id
  THEN CHOOSE i \in 1..Len(rs) : rs[i].id = id /\ \A j \in 1..(i - 1) : rs[j].id # id
  ELSE 0

\* The rule table after toggleRule(id, enabled); enabled may be left out.
toggleRule(rs, id, enabled) ==
  IF ruleIndex(rs, id) = 0 THEN rs
  ELSE [rs EXCEPT ![ruleIndex(rs, id)].enabled =
                    IF enabled # null THEN enabled[1] ELSE ~@]

\* { ...rule, ...updates, id }
updatedRule(rule, updates) ==
  [rule EXCEPT
     !.pattern = IF "pattern" \in DOMAIN updates THEN updates.pattern ELSE @,
     !.action = IF "action" \in DOMAIN updates THEN updates.action ELSE @,
     !.response = IF "response" \in DOMAIN updates THEN updates.response ELSE @,
     !.handler = IF "handler" \in DOMAIN updates THEN updates.handler ELSE @,
     !.enabled = IF "enabled" \in DOMAIN updates THEN updates.enabled ELSE @]

\* The rule table after updateRule(id, updates).
updateRule(rs, id, updates) ==
  IF ruleIndex(rs, id) = 0 THEN rs
  ELSE [rs EXCEPT ![ruleIndex(rs, id)] = updatedRule(@, updates)]

\* The rule table after clearCustomRules().
clearCustomRules(rs) == SelectSeq(rs, LAMBDA r : ~isCustom(r.id))

\* The rule table after resetToDefaults().
resetToDefaults(rs) == defaultRules

\* A rule as JSON.stringify writes it: a RegExp as {}, no handler.
stringified(rule) ==
  [rule EXCEPT !.pattern = IF @.regexp THEN [regexp |-> FALSE, source |-> <<"{}">>] ELSE @, !.handler = null]

\* The item saveToStorage writes (store lines 162-182) for a store state.
storageData(state) ==
  LET customRules == SelectSeq(state.rules, LAMBDA r : isCustom(r.id))
      lastOf(id) == CHOOSE i \in 1..Len(state.rules) :
                      /\ state.rules[i].id = id
                      /\ \A j \in (i + 1)..Len(state.rules) : state.rules[j].id # id
  IN  Some([enabled |-> state.enabled,
            customRules |-> [i \in 1..Len(customRules) |-> stringified(customRules[i])],
            ruleStates |-> {<<state.rules[i].id, state.rules[lastOf(state.rules[i].id)].enabled>> :
                              i \in 1..Len(state.rules)}])

\* wouldIntercept(message) of the store (lines 246-256).
wouldIntercept(state, rs, message) ==
  IF ~state.enabled THEN FALSE ELSE intercept(rs, message).intercepted

\* The store and the service as the two modules build them when
\* localStorage holds no item: the default rules, the interceptor enabled.
Constructed ==
  /\ rules = defaultRules
  /\ messageInterceptorState =
       [enabled |-> TRUE, rules |-> defaultRules, lastInterception |-> null]
  /\ interceptorStorage = null
  /\ returned = null

\* One call of the engine, alone: no second call, the agent store at rest.
Alone ==
  /\ other = StartFrame(<<>>, <<>>)
  /\ agentStateStore = DEFAULT_STATE
  /\ localStorage = null
  /\ Constructed

Init ==
  /\ \/ \E O \in OrigTexts, D \in DiffTexts : Called(O, D)
     \/ \E O \in RawTexts, D \in CrlfDiffTexts : Called(O, D)
  /\ Alone

\* Lines 8-12: both texts normalized to LF and split.
Normalize ==
  /\ pc = "start"
  /\ originalLines' = splitOriginal(replaceCRLF(originalContent))
  /\ diffLines' = splitLF(replaceCRLF(unifiedDiff))
  /\ pc' = "parse"
  /\ UNCHANGED <<interceptVars, other, agentStateStore, localStorage, originalContent, unifiedDiff, hunks, validationMode, vi,
                 result, ai, applied, outcome>>

\* Line 15, the parser returns.
Parse ==
  /\ pc = "parse"
  /\ LET p == parseUnifiedDiffHunks(diffLines)
     IN /\ ~p.failed
        /\ hunks' = p.hunks
  /\ validationMode' = "strict"
  /\ vi' = 1
  /\ pc' = "validate"
  /\ UNCHANGED <<interceptVars, other, agentStateStore, localStorage, originalContent, unifiedDiff, originalLines, diffLines,
                 result, ai, applied, outcome>>

\* Line 15, the parser throws.
ParseThrows ==
  /\ pc = "parse"
  /\ LET p == parseUnifiedDiffHunks(diffLines)
     IN /\ p.failed
        /\ outcome' = MalformedHunkHeader(p.badLine)
  /\ pc' = "failed"
  /\ UNCHANGED <<interceptVars, other, agentStateStore, localStorage, originalContent, unifiedDiff, originalLines, diffLines, hunks,
                 validationMode, vi, result, ai, applied>>

\* The turn without the normalized second try.
validateTurnStrictOnly(lines, hunk, mode) ==
  [mode |-> mode,
   end  |-> IF validateHunk(lines, hunk, mode) = "true" THEN "next" ELSE "failed"]

\* One turn of the loop of lines 20-28 on a hunk: the mode it leaves and how
\* it ends ("next", "failed" for the throw of line 25, "throw" for a
\* TypeError out of validateHunk).
validateTurn(lines, hunk, mode) ==
  LET first == validateHunk(lines, hunk, mode)
      second == validateHunk(lines, hunk, "normalized")
  IN IF first = "true" THEN [mode |-> mode, end |-> "next"]
     ELSE IF first = "throw" THEN [mode |-> mode, end |-> "throw"]
     ELSE [mode |-> "normalized",
           end |-> IF second = "true" THEN "next"
                   ELSE IF second = "throw" THEN "throw" ELSE "failed"]

\* The message with the zero-based oldStart.
reportedLineZeroBased(hunk) == hunk.oldStart

\* The line number in the message of line 25.
reportedLine(hunk) == hunk.oldStart + 1

ValidateNext ==
  /\ pc = "validate"
  /\ vi <= Len(hunks)
  /\ LET t == validateTurn(originalLines, hunks[vi], validationMode)
     IN /\ t.end = "next"
        /\ validationMode' = t.mode
  /\ vi' = vi + 1
  /\ UNCHANGED <<interceptVars, other, agentStateStore, localStorage, pc, originalContent, unifiedDiff, originalLines, diffLines,
                 hunks, result, ai, applied, outcome>>

ValidateFails ==
  /\ pc = "validate"
  /\ vi <= Len(hunks)
  /\ LET t == validateTurn(originalLines, hunks[vi], validationMode)
     IN /\ t.end = "failed"
        /\ validationMode' = t.mode
  /\ outcome' = HunkValidationFailed(reportedLine(hunks[vi]))
  /\ pc' = "failed"
  /\ UNCHANGED <<interceptVars, other, agentStateStore, localStorage, originalContent, unifiedDiff, originalLines, diffLines,
                 hunks, vi, result, ai, applied>>

ValidateThrows ==
  /\ pc = "validate"
  /\ vi <= Len(hunks)
  /\ LET t == validateTurn(originalLines, hunks[vi], validationMode)
     IN /\ t.end = "throw"
        /\ validationMode' = t.mode
  /\ outcome' = TypeError
  /\ pc' = "failed"
  /\ UNCHANGED <<interceptVars, other, agentStateStore, localStorage, originalContent, unifiedDiff, originalLines, diffLines,
                 hunks, vi, result, ai, applied>>

\* A loop that validates and applies hunk by hunk: application starts as
\* soon as one hunk has passed.
ValidationDoneAfterFirst == vi > 1

\* The application loop may start once the validation loop has run out.
ValidationDone == vi > Len(hunks)

\* Lines 31-32: result is a copy of the original lines, i the last hunk.
StartApply ==
  /\ pc = "validate"
  /\ ValidationDone
  /\ result' = originalLines
  /\ ai' = Len(hunks) - 1
  /\ pc' = "apply"
  /\ UNCHANGED <<interceptVars, other, agentStateStore, localStorage, originalContent, unifiedDiff, originalLines, diffLines,
                 hunks, validationMode, vi, applied, outcome>>

\* The loop running over the hunks in input order.
hunkAtForward(hs, i) == hs[Len(hs) - i]

\* hunks[i] of line 33.
hunkAt(hs, i) == hs[i + 1]

\* Lines 32-34: one turn of the application loop.
ApplyNext ==
  /\ pc = "apply"
  /\ ai >= 0
  /\ result' = applyHunk(result, hunkAt(hunks, ai))
  /\ applied' = Append(applied, hunkAt(hunks, ai))
  /\ ai' = ai - 1
  /\ UNCHANGED <<interceptVars, other, agentStateStore, localStorage, pc, originalContent, unifiedDiff, originalLines, diffLines,
                 hunks, validationMode, vi, outcome>>

\* Line 36.
Return ==
  /\ pc = "apply"
  /\ ai < 0
  /\ outcome' = Returned(joinLF(result))
  /\ pc' = "done"
  /\ UNCHANGED <<interceptVars, other, agentStateStore, localStorage, originalContent, unifiedDiff, originalLines, diffLines,
                 hunks, validationMode, vi, result, ai, applied>>

\* ------------------------------------------------- the call as a function

\* The loop of lines 20-28 from hunk i on (1-based).
RECURSIVE validationLoop(_, _, _, _)
validationLoop(lines, hs, i, mode) ==
  IF i > Len(hs) THEN [end |-> "accepted", at |-> 0]
  ELSE LET t == validateTurn(lines, hs[i], mode)
       IN IF t.end = "next" THEN validationLoop(lines, hs, i + 1, t.mode)
          ELSE [end |-> t.end, at |-> i]

\* The loop of lines 32-34 from i down (0-based).
RECURSIVE applicationLoop(_, _, _)
applicationLoop(res, hs, i) ==
  IF i < 0 THEN res ELSE applicationLoop(applyHunk(res, hunkAt(hs, i)), hs, i - 1)

\* Lines 17-36 on the split original and the parsed hunks.
validateAndApply(lines, hs) ==
  LET v == validationLoop(lines, hs, 1, "strict")
  IN IF v.end = "accepted"
     THEN Returned(joinLF(applicationLoop(lines, hs, Len(hs) - 1)))
     ELSE IF v.end = "throw" THEN TypeError
     ELSE HunkValidationFailed(reportedLine(hs[v.at]))

\* applyUnifiedDiff(originalContent, unifiedDiff): what it returns or throws.
applyUnifiedDiff(O, D) ==
  LET p == parseUnifiedDiffHunks(splitLF(replaceCRLF(D)))
  IN IF p.failed THEN MalformedHunkHeader(p.badLine)
     ELSE validateAndApply(splitOriginal(replaceCRLF(O)), p.hunks)

\* The calls on the diffs with every form of header.
InitHeaders ==
  /\ \E O \in OrigTexts, D \in HeaderDiffTexts : Called(O, D)
  /\ Alone

\* ------------------------------------------------------------- two calls

\* The frame of the running call: its parameters and locals.  mixed records
\* that the two calls have been switched while both were under way.
locals ==
  [pc |-> pc, originalContent |-> originalContent, unifiedDiff |-> unifiedDiff,
   originalLines |-> originalLines, diffLines |-> diffLines, hunks |-> hunks,
   validationMode |-> validationMode, vi |-> vi, result |-> result, ai |-> ai,
   applied |-> applied, outcome |-> outcome, mixed |-> other.mixed]

\* A call that keeps result in a field of the object the calls share: the
\* call that resumes finds the result of the call that ran last.
resumedSharedResult(parked, running) == [parked EXCEPT !.result = running.result]

\* What a call finds when it runs again: its own frame, whatever the call
\* that ran in between did (DiffTester has no fields, every name is a
\* parameter, a const or a let of the call).
resumed(parked, running) == parked

UnderWay(f) == f.pc \in {"parse", "validate", "apply"}

\* The running call is parked between two of its steps and the other runs.
Switch ==
  /\ pc' = resumed(other, locals).pc
  /\ originalContent' = resumed(other, locals).originalContent
  /\ unifiedDiff' = resumed(other, locals).unifiedDiff
  /\ originalLines' = resumed(other, locals).originalLines
  /\ diffLines' = resumed(other, locals).diffLines
  /\ hunks' = resumed(other, locals).hunks
  /\ validationMode' = resumed(other, locals).validationMode
  /\ vi' = resumed(other, locals).vi
  /\ result' = resumed(other, locals).result
  /\ ai' = resumed(other, locals).ai
  /\ applied' = resumed(other, locals).applied
  /\ outcome' = resumed(other, locals).outcome
  /\ other' = [locals EXCEPT !.mixed = @ \/ (UnderWay(other) /\ UnderWay(locals))]
  /\ UNCHANGED <<agentStateStore, localStorage, interceptVars>>

\* The inputs of the two calls: originals of lines 'a', the original 'b ',
\* and one diff for each way a call can end.
TwoCallOrigTexts ==
  {joinLF(ls) : ls \in SeqsUpTo({<<"a">>}, MaxOrigLines)} \cup {<<"b", SP>>}

TwoCallDiffTexts ==
  {<<>>,
   BadHeaderLine,
   joinLF(<<HeaderLine(0), <<"-", "a">>>>),
   joinLF(<<HeaderLine(1), <<SP, "b">>, <<"+", "c">>>>),
   joinLF(<<HeaderLine(1), <<"-", "a">>, <<"+", "c">>>>),
   joinLF(<<HeaderLine(1), <<"-", "a">>, HeaderLine(2), <<"+", "c">>>>)}

InitTwo ==
  /\ \E O \in TwoCallOrigTexts, D \in TwoCallDiffTexts : Called(O, D)
  /\ \E O \in TwoCallOrigTexts, D \in TwoCallDiffTexts : other = StartFrame(O, D)
  /\ agentStateStore = DEFAULT_STATE
  /\ localStorage = null
  /\ Constructed

Next ==
  \/ Normalize
  \/ Parse
  \/ ParseThrows
  \/ ValidateNext
  \/ ValidateFails
  \/ ValidateThrows
  \/ StartApply
  \/ ApplyNext
  \/ Return

Spec == Init /\ [][Next]_vars

SpecHeaders == InitHeaders /\ [][Next]_vars

\* Two calls, their steps interleaved.
NextTwo == Next \/ Switch

SpecTwo == InitTwo /\ [][NextTwo]_vars

\* Calls on one-hunk diffs that add and delete empty lines as well, on
\* originals with empty lines: a header of any start from 0 to one past the
\* end, or the malformed one, then up to MaxRoundLines lines.
MaxRoundLines == 2

RoundOrigTexts == {joinLF(ls) : ls \in SeqsUpTo({<<"a">>, <<>>}, MaxOrigLines)}

RoundLineChoices == {<<"+">>, <<"+", "c">>, <<"-", "a">>, <<SP, "a">>}

RoundDiffTexts ==
  {joinLF(<<h>> \o body) :
     h \in {HeaderLine(n) : n \in 0..(MaxOrigLines + 1)} \cup {BadHeaderLine},
     body \in SeqsUpTo(RoundLineChoices, MaxRoundLines)}

InitRound ==
  /\ \E O \in RoundOrigTexts, D \in RoundDiffTexts : Called(O, D)
  /\ Alone

SpecRound == InitRound /\ [][Next]_vars

\* The call, step by step, ends as the function says.
StepsAgree ==
  pc \in {"done", "failed"} => outcome = applyUnifiedDiff(originalContent, unifiedDiff)

\* -------------------------------------------------------- the agent store
\* src/app/lib/services/templateLoader.ts, lines 290-731.

AgentStates ==
  {"IDLE", "ANALYZING", "PLANNING", "AWAITING_APPROVAL", "EXECUTING", "DEBUGGING",
   "COMPLETED"}

\* validTransitions of canTransition.
validTransitions ==
  [IDLE              |-> {"ANALYZING"},
   ANALYZING         |-> {"PLANNING", "EXECUTING", "IDLE"},
   PLANNING          |-> {"AWAITING_APPROVAL", "EXECUTING", "IDLE"},
   AWAITING_APPROVAL |-> {"EXECUTING", "PLANNING", "IDLE"},
   EXECUTING         |-> {"COMPLETED", "DEBUGGING", "IDLE"},
   DEBUGGING         |-> {"PLANNING", "EXECUTING", "IDLE"},
   COMPLETED         |-> {"IDLE"}]

\* A guard that lets every transition through.
canTransitionAlways(from, to) == TRUE

\* A guard that lets no transition to IDLE through.
canTransitionNotToIdle(from, to) ==
  from \in DOMAIN validTransitions /\ to \in validTransitions[from] \ {"IDLE"}

\* validTransitions[from]?.includes(to) ?? false
canTransition(from, to) ==
  from \in DOMAIN validTransitions /\ to \in validTransitions[from]

MaxSteps == 2
MaxHistory == 4

\* The last entries of the history that saveStateToStorage keeps.
HistoryKept == 50

\* A plan of k pending steps; of an ExecutionPlan the store reads the steps.
Plan(k) == [id |-> k, steps |-> [i \in 1..k |-> [id |-> i, status |-> "pending"]]]

Plans == {Plan(k) : k \in 0..MaxSteps}

StepStatuses == {"pending", "in_progress", "completed", "failed"}

Complexities == {3, 7}

\* A StateTransitionEvent; the fields its type does not have are null.
Event(type) ==
  [type |-> type, complexity |-> null, requiresPlanning |-> FALSE,
   plan |-> null, error |-> null]

Events ==
  {Event(t) : t \in {"USER_MESSAGE", "PLAN_APPROVED", "PLAN_REJECTED",
                     "EXECUTION_STARTED", "EXECUTION_COMPLETED", "RESET"}}
    \cup {[Event("COMPLEXITY_ANALYZED") EXCEPT !.complexity = Some(c),
                                               !.requiresPlanning = r]
            : c \in Complexities, r \in BOOLEAN}
    \cup {[Event("PLAN_GENERATED") EXCEPT !.plan = Some(p)] : p \in Plans}
    \cup {[Event("EXECUTION_ERROR") EXCEPT !.error = Some("Error")]}

\* updates = {}
NoUpdates == <<>>

Stay(state) == [newState |-> state.currentState, updates |-> NoUpdates]

\* The switch of processEvent (lines 503-624): the newState and the updates
\* it leaves.  The return of line 553 changes nothing, as staying does.
switchOn(state, event) ==
  CASE event.type = "USER_MESSAGE" ->
         IF state.currentState = "IDLE"
         THEN [newState |-> "ANALYZING",
               updates |-> [messageComplexity |-> null, error |-> null]]
         ELSE Stay(state)
    [] event.type = "COMPLEXITY_ANALYZED" ->
         IF state.currentState \in {"ANALYZING", "IDLE"}
         THEN [newState |-> IF event.requiresPlanning /\ state.settings.autoPlanning
                            THEN "PLANNING" ELSE "EXECUTING",
               updates |-> [messageComplexity |-> event.complexity]]
         ELSE Stay(state)
    [] event.type = "PLAN_GENERATED" ->
         IF state.currentState = "PLANNING"
         THEN [newState |-> "AWAITING_APPROVAL",
               updates |-> [currentPlan |-> event.plan,
                            executionProgress |->
                              [currentStepIndex |-> 0, completedSteps |-> 0,
                               totalSteps |-> Len(event.plan[1].steps),
                               percentComplete |-> 0]]]
         ELSE Stay(state)
    [] event.type = "PLAN_APPROVED" ->
         IF state.currentState = "AWAITING_APPROVAL"
         THEN [newState |-> "EXECUTING", updates |-> NoUpdates]
         ELSE Stay(state)
    [] event.type = "PLAN_REJECTED" ->
         IF state.currentState = "AWAITING_APPROVAL"
         THEN [newState |-> "IDLE", updates |-> [currentPlan |-> null]]
         ELSE Stay(state)
    [] event.type = "EXECUTION_STARTED" ->
         IF state.currentState \in {"PLANNING", "ANALYZING"}
         THEN [newState |-> "EXECUTING", updates |-> NoUpdates]
         ELSE Stay(state)
    [] event.type = "EXECUTION_ERROR" ->
         IF state.currentState = "EXECUTING"
         THEN [newState |-> "DEBUGGING", updates |-> [error |-> event.error]]
         ELSE Stay(state)
    [] event.type = "EXECUTION_COMPLETED" ->
         IF state.currentState = "EXECUTING"
         THEN [newState |-> "COMPLETED",
               updates |-> [executionProgress |->
                              [state.executionProgress EXCEPT
                                 !.percentComplete = 100,
                                 !.completedSteps = state.executionProgress.totalSteps]]]
         ELSE Stay(state)
    [] event.type = "RESET" ->
         [newState |-> "IDLE",
          updates |-> [currentPlan |-> null, messageComplexity |-> null,
                       error |-> null,
                       executionProgress |-> DEFAULT_STATE.executionProgress]]

\* A merge that leaves currentPlan as it was.
mergeKeepingPlan(state, updates) ==
  [state EXCEPT
     !.executionProgress = IF "executionProgress" \in DOMAIN updates
                           THEN updates.executionProgress ELSE @,
     !.messageComplexity = IF "messageComplexity" \in DOMAIN updates
                           THEN updates.messageComplexity ELSE @,
     !.error = IF "error" \in DOMAIN updates THEN updates.error ELSE @]

\* { ...state, ...updates }
merge(state, updates) ==
  [state EXCEPT
     !.currentPlan = IF "currentPlan" \in DOMAIN updates THEN updates.currentPlan ELSE @,
     !.executionProgress = IF "executionProgress" \in DOMAIN updates
                           THEN updates.executionProgress ELSE @,
     !.messageComplexity = IF "messageComplexity" \in DOMAIN updates
                           THEN updates.messageComplexity ELSE @,
     !.error = IF "error" \in DOMAIN updates THEN updates.error ELSE @]

\* Lines 626-655: whether processEvent sets the store (and saves it).
setsStore(state, event) ==
  IF switchOn(state, event).newState # state.currentState
  THEN canTransition(state.currentState, switchOn(state, event).newState)
  ELSE DOMAIN switchOn(state, event).updates # {}

\* Lines 626-655: the store processEvent leaves.
processEvent(state, event) ==
  LET s == switchOn(state, event)
  IN IF s.newState # state.currentState
     THEN IF canTransition(state.currentState, s.newState)
          THEN [merge(state, s.updates) EXCEPT
                  !.currentState = s.newState,
                  !.previousState = state.currentState,
                  !.stateHistory = Append(@, [state |-> s.newState, event |-> event])]
          ELSE state
     ELSE IF DOMAIN s.updates # {} THEN merge(state, s.updates) ELSE state

\* stateHistory.slice(-HistoryKept)
lastEntries(h) ==
  SubSeq(h, IF Len(h) > HistoryKept THEN Len(h) - HistoryKept + 1 ELSE 1, Len(h))

\* What saveStateToStorage puts in localStorage: the store without its error.
toSave(state) ==
  Some([currentState |-> state.currentState,
        previousState |-> state.previousState,
        currentPlan |-> state.currentPlan,
        executionProgress |-> state.executionProgress,
        messageComplexity |-> state.messageComplexity,
        settings |-> state.settings,
        stateHistory |-> lastEntries(state.stateHistory)])

\* Math.round(completedSteps / steps * 100)
percentOf(completedSteps, steps) == (200 * completedSteps + steps) \div (2 * steps)

\* steps.findIndex((s) => s.id === stepId), 1-based here, 0 when not found.
findIndex(steps, stepId) ==
  IF \E i \in 1..Len(steps) : steps[i].id = stepId
  THEN CHOOSE i \in 1..Len(steps) :
         steps[i].id = stepId /\ \A j \in 1..(i - 1) : steps[j].id # stepId
  ELSE 0

\* updatePlanStep found its step: it sets and saves the store.
findsStep(state, stepId) ==
  state.currentPlan # null /\ findIndex(state.currentPlan[1].steps, stepId) # 0

\* updatePlanStep(stepId, { status }) (lines 661-696).
updatePlanStep(state, stepId, status) ==
  IF ~findsStep(state, stepId) THEN state
  ELSE LET stepIndex == findIndex(state.currentPlan[1].steps, stepId)
           updatedSteps == [state.currentPlan[1].steps EXCEPT ![stepIndex].status = status]
           completedSteps ==
             Cardinality({i \in 1..Len(updatedSteps) : updatedSteps[i].status = "completed"})
       IN [state EXCEPT
             !.currentPlan = Some([state.currentPlan[1] EXCEPT !.steps = updatedSteps]),
             !.executionProgress =
               [@ EXCEPT !.currentStepIndex = stepIndex - 1,
                         !.completedSteps = completedSteps,
                         !.percentComplete = percentOf(completedSteps, Len(updatedSteps))]]

\* updateSettings({ autoPlanning }) (lines 701-709).
updateSettings(state, autoPlanning) ==
  [state EXCEPT !.settings.autoPlanning = autoPlanning]

\* { ...DEFAULT_STATE, ...loadStateFromStorage() } of lines 459-462.
loadedStore(stored) ==
  IF stored = null THEN DEFAULT_STATE
  ELSE [DEFAULT_STATE EXCEPT
          !.currentState = stored[1].currentState,
          !.previousState = stored[1].previousState,
          !.currentPlan = stored[1].currentPlan,
          !.executionProgress = stored[1].executionProgress,
          !.messageComplexity = stored[1].messageComplexity,
          !.settings = stored[1].settings,
          !.stateHistory = stored[1].stateHistory]

\* processEvent(event); the history is kept within MaxHistory entries.
ProcessEvent ==
  /\ Len(agentStateStore.stateHistory) < MaxHistory
  /\ \E event \in Events :
       /\ agentStateStore' = processEvent(agentStateStore, event)
       /\ localStorage' = IF setsStore(agentStateStore, event)
                          THEN toSave(processEvent(agentStateStore, event))
                          ELSE localStorage
  /\ UNCHANGED <<callVars, other, interceptVars>>

\* updatePlanStep(stepId, { status }), also with the id of no step.
UpdatePlanStep ==
  /\ \E stepId \in 1..(MaxSteps + 1), status \in StepStatuses :
       /\ agentStateStore' = updatePlanStep(agentStateStore, stepId, status)
       /\ localStorage' = IF findsStep(agentStateStore, stepId)
                          THEN toSave(updatePlanStep(agentStateStore, stepId, status))
                          ELSE localStorage
  /\ UNCHANGED <<callVars, other, interceptVars>>

UpdateSettings ==
  /\ \E autoPlanning \in BOOLEAN :
       /\ agentStateStore' = updateSettings(agentStateStore, autoPlanning)
       /\ localStorage' = toSave(updateSettings(agentStateStore, autoPlanning))
  /\ UNCHANGED <<callVars, other, interceptVars>>

\* The page is loaded again: the module builds its store from localStorage.
Reload ==
  /\ agentStateStore' = loadedStore(localStorage)
  /\ UNCHANGED <<callVars, other, localStorage, interceptVars>>

\* The store as the module builds it when localStorage holds no item.
InitAgent ==
  /\ agentStateStore = loadedStore(null)
  /\ localStorage = null
  /\ Called(<<>>, <<>>)
  /\ other = StartFrame(<<>>, <<>>)
  /\ Constructed

\* processEvent called for each event of a sequence in turn.
RECURSIVE processEvents(_, _)
processEvents(state, events) ==
  IF events = <<>> THEN state
  ELSE processEvents(processEvent(state, Head(events)), Tail(events))

\* What localStorage holds after those calls: the last store saved.
RECURSIVE storedAfter(_, _, _)
storedAfter(stored, state, events) ==
  IF events = <<>> THEN stored
  ELSE storedAfter(IF setsStore(state, Head(events))
                   THEN toSave(processEvent(state, Head(events))) ELSE stored,
                   processEvent(state, Head(events)), Tail(events))

\* The feedback handleRejectWithFeedback is called with: 'direct', some
\* other text, or the empty text.
Feedbacks == {"direct", "feedback", ""}

\* What regeneratePlan does: it resolves to a plan, or it throws (null).
Regenerations == {Some(p) : p \in Plans} \cup {null}

\* The events handleRejectWithFeedback sends (PlanApproval.tsx lines 41-66).
rejectionEvents(feedback, userMessage, regenerated) ==
  IF feedback = "direct"
  THEN <<Event("PLAN_REJECTED"), Event("EXECUTION_STARTED")>>
  ELSE IF feedback # "" /\ userMessage
       THEN IF regenerated # null
            THEN <<Event("PLAN_REJECTED"),
                   [Event("PLAN_GENERATED") EXCEPT !.plan = regenerated]>>
            ELSE <<Event("PLAN_REJECTED"), Event("EXECUTION_STARTED")>>
       ELSE <<Event("PLAN_REJECTED")>>

\* The store handleRejectWithFeedback leaves.
handleRejectWithFeedback(state, feedback, userMessage, regenerated) ==
  processEvents(state, rejectionEvents(feedback, userMessage, regenerated))

\* handleRejectWithFeedback(feedback) of a PlanApproval shown for the plan of
\* the store, once regeneratePlan has settled.
HandleRejectWithFeedback ==
  /\ agentStateStore.currentPlan # null
  /\ \E feedback \in Feedbacks, userMessage \in BOOLEAN, regenerated \in Regenerations :
       /\ Len(handleRejectWithFeedback(agentStateStore, feedback, userMessage,
                                       regenerated).stateHistory) <= MaxHistory
       /\ agentStateStore' =
            handleRejectWithFeedback(agentStateStore, feedback, userMessage, regenerated)
       /\ localStorage' =
            storedAfter(localStorage, agentStateStore,
                        rejectionEvents(feedback, userMessage, regenerated))
  /\ UNCHANGED <<callVars, other, interceptVars>>

NextAgent ==
  \/ ProcessEvent
  \/ UpdatePlanStep
  \/ UpdateSettings
  \/ Reload
  \/ HandleRejectWithFeedback

SpecAgent == InitAgent /\ [][NextAgent]_vars

\* The computed store needsPlanApproval (lines 474-476).
needsPlanApproval(state) ==
  state.currentState = "AWAITING_APPROVAL" /\ state.currentPlan # null

\* ------------------------------------------- the interceptor's operations

\* The custom rules alive at a time, at most.
MaxCustom == 1

\* The rules addRule is called with (their id is made up by addRule): a
\* substring rule that also matches '/help', a rule with the empty pattern,
\* which every text includes, and a disabled rule with a handler that
\* declines.
CustomRuleChoices ==
  {Rule(null, StringPattern(<<"h", "e", "l", "p">>), "transform", null, null, TRUE),
   Rule(null, StringPattern(<<>>), "bypass", Some(<<"ok">>), null, TRUE),
   Rule(null, RegExp(<<"h", "i">>), "route", null, Some("decline"), FALSE)}

\* The ids removeRule, toggleRule and updateRule are called with: default
\* rules, a custom id, and an id no rule has.
RemoveIds == {DefaultId("help-command")} \cup {CustomId(n) : n \in 0..MaxCustom}
ToggleIds ==
  {DefaultId("help-command"), DefaultId("status-command")}
    \cup {CustomId(n) : n \in 0..MaxCustom}
UpdateIds == {DefaultId("help-command"), CustomId(0)}

\* The updates updateRule is called with.
UpdateChoices ==
  {[enabled |-> FALSE],
   [pattern |-> StringPattern(<<"h", "e", "l", "p">>)],
   [action |-> "transform", handler |-> null]}

\* The messages: the empty one, a blank one, a command in capitals with
\* blanks around it, a command with a handler, and a word.
Messages ==
  {<<>>, <<SP>>, <<SP, "/", "H", "E", "L", "P", SP>>,
   <<"/", "s", "t", "a", "t", "u", "s">>, <<"h", "i">>}

\* refreshRules() then saveToStorage() of the store, the service holding rs.
Refreshed(rs) ==
  /\ messageInterceptorState' = [messageInterceptorState EXCEPT !.rules = rs]
  /\ interceptorStorage' = storageData([messageInterceptorState EXCEPT !.rules = rs])

\* What an operation of the store does once the service holds rs: refresh
\* and save when the service reported success, nothing otherwise.
Served(rs, success) ==
  /\ rules' = rs
  /\ IF success THEN Refreshed(rs)
     ELSE UNCHANGED <<messageInterceptorState, interceptorStorage>>

\* messageInterceptorStore.addRule(rule); the id is one no rule has.
AddRule ==
  /\ \E rule \in CustomRuleChoices, n \in 1..MaxCustom :
       /\ ruleIndex(rules, CustomId(n)) = 0
       /\ Served(addRule(rules, rule, CustomId(n)), TRUE)
  /\ UNCHANGED <<callVars, other, agentStateStore, localStorage, returned>>

\* messageInterceptorStore.removeRule(id)
RemoveRule ==
  /\ \E id \in RemoveIds :
       Served(removeRule(rules, id), Len(removeRule(rules, id)) < Len(rules))
  /\ UNCHANGED <<callVars, other, agentStateStore, localStorage, returned>>

\* messageInterceptorStore.toggleRule(id, enabled)
ToggleRule ==
  /\ \E id \in ToggleIds, enabled \in {null, Some(TRUE), Some(FALSE)} :
       Served(toggleRule(rules, id, enabled), ruleIndex(rules, id) # 0)
  /\ UNCHANGED <<callVars, other, agentStateStore, localStorage, returned>>

\* messageInterceptorStore.updateRule(id, updates)
UpdateRule ==
  /\ \E id \in UpdateIds, updates \in UpdateChoices :
       Served(updateRule(rules, id, updates), ruleIndex(rules, id) # 0)
  /\ UNCHANGED <<callVars, other, agentStateStore, localStorage, returned>>

\* messageInterceptorStore.clearCustomRules()
ClearCustomRules ==
  /\ Served(clearCustomRules(rules), TRUE)
  /\ UNCHANGED <<callVars, other, agentStateStore, localStorage, returned>>

\* messageInterceptorStore.resetToDefaults()
ResetToDefaults ==
  /\ Served(resetToDefaults(rules), TRUE)
  /\ UNCHANGED <<callVars, other, agentStateStore, localStorage, returned>>

\* messageInterceptorStore.toggle(enabled)
Toggle ==
  /\ \E enabled \in {null, Some(TRUE), Some(FALSE)} :
       /\ messageInterceptorState' =
            [messageInterceptorState EXCEPT
               !.enabled = IF enabled # null THEN enabled[1] ELSE ~@]
       /\ interceptorStorage' =
            storageData([messageInterceptorState EXCEPT
                           !.enabled = IF enabled # null THEN enabled[1] ELSE ~@])
  /\ UNCHANGED <<callVars, other, agentStateStore, localStorage, rules, returned>>

\* messageInterceptor.intercept(message)
Intercept ==
  /\ \E message \in Messages :
       returned' = Some([call |-> "intercept", message |-> message,
                         result |-> Some(intercept(rules, message)),
                         value |-> intercept(rules, message).intercepted])
  /\ UNCHANGED <<callVars, other, agentStateStore, localStorage, rules,
                 messageInterceptorState, interceptorStorage>>

\* messageInterceptorStore.wouldIntercept(message)
WouldIntercept ==
  /\ \E message \in Messages :
       returned' = Some([call |-> "wouldIntercept", message |-> message,
                         result |-> null,
                         value |-> wouldIntercept(messageInterceptorState, rules,
                                                  message)])
  /\ UNCHANGED <<callVars, other, agentStateStore, localStorage, rules,
                 messageInterceptorState, interceptorStorage>>

\* The interceptor alone: no call of the engine, the agent store at rest.
InitIntercept ==
  /\ Called(<<>>, <<>>)
  /\ Alone

NextIntercept ==
  \/ AddRule
  \/ RemoveRule
  \/ ToggleRule
  \/ UpdateRule
  \/ ClearCustomRules
  \/ ResetToDefaults
  \/ Toggle
  \/ Intercept
  \/ WouldIntercept

SpecIntercept == InitIntercept /\ [][NextIntercept]_vars

\* ---------------------------------------------------------------- claims

Ended == pc \in {"done", "failed"}

\* The number of context and delete lines among the first n lines of a hunk.
OldLines(hunk, n) ==
  Cardinality({j \in 1..n : hunk.lines[j].type \in {"context", "delete"}})

AddLines(hunk) == Cardinality({j \in 1..Len(hunk.lines) : hunk.lines[j].type = "add"})

DeleteLines(hunk) ==
  Cardinality({j \in 1..Len(hunk.lines) : hunk.lines[j].type = "delete"})

\* One past the old region of a hunk.
OldEnd(hunk) == hunk.oldStart + OldLines(hunk, Len(hunk.lines))

Passes(hs, k, mode) == validateHunk(originalLines, hs[k], mode) = "true"

\* C1: all-or-nothing.  The lines the hunks are validated against stay the
\* split of the normalized original; a hunk is applied only after every hunk
\* of the diff has passed validation; a call that ends in an error has
\* applied no hunk and returns no content; content is returned only after
\* every hunk has been applied.
C1_AllOrNothing ==
  /\ pc # "start" => originalLines = splitOriginal(replaceCRLF(originalContent))
  /\ (applied # <<>> \/ pc \in {"apply", "done"}) =>
        /\ vi = Len(hunks) + 1
        /\ \A k \in 1..Len(hunks) : Passes(hunks, k, validationMode)
  /\ pc = "failed" =>
        /\ applied = <<>>
        /\ result = <<>>
        /\ outcome.kind \notin {"content", "none"}
  /\ outcome.kind = "content" => pc = "done" /\ Len(applied) = Len(hunks)

\* A two-hunk diff whose first hunk passed and whose second failed.
C1_Witness ==
  /\ pc = "failed"
  /\ outcome.kind = "HunkValidationFailed"
  /\ Len(hunks) = 2
  /\ vi = 2
  /\ hunks[1].lines # <<>>

\* The two-pass validation of the specification: every hunk in strict mode
\* and, if one fails, every hunk again in normalized mode; the first hunk
\* that does not pass the second pass ends it.
AllPass(lines, hs, mode) ==
  \A k \in 1..Len(hs) : validateHunk(lines, hs[k], mode) = "true"

FirstNotPassing(lines, hs, mode) ==
  CHOOSE k \in 1..Len(hs) :
    /\ validateHunk(lines, hs[k], mode) # "true"
    /\ \A j \in 1..(k - 1) : validateHunk(lines, hs[j], mode) = "true"

TwoPass(lines, hs) ==
  IF AllPass(lines, hs, "strict") \/ AllPass(lines, hs, "normalized")
  THEN [end |-> "accepted", at |-> 0]
  ELSE [end |-> IF validateHunk(lines, hs[FirstNotPassing(lines, hs, "normalized")],
                                "normalized") = "throw"
                THEN "throw" ELSE "failed",
        at  |-> FirstNotPassing(lines, hs, "normalized")]

ValidationEnded ==
  \/ pc \in {"apply", "done"}
  \/ pc = "failed" /\ outcome.kind \in {"HunkValidationFailed", "TypeError"}

\* How the validation loop of the call ended.
LoopEnd ==
  IF pc \in {"apply", "done"} THEN [end |-> "accepted", at |-> 0]
  ELSE [end |-> IF outcome.kind = "TypeError" THEN "throw" ELSE "failed", at |-> vi]

\* C3: the validation loop ends as the two-pass validation does (accepted,
\* or rejected at the same hunk), and a batch is accepted exactly when all
\* its hunks pass strict or all pass normalized.
C3_ModeChosenOnce ==
  ValidationEnded =>
    /\ LoopEnd = TwoPass(originalLines, hunks)
    /\ (pc \in {"apply", "done"}) <=>
          (AllPass(originalLines, hunks, "strict")
             \/ AllPass(originalLines, hunks, "normalized"))

\* An accepted batch whose first hunk passes strict and whose second passes
\* only normalized: the loop changed mode in the middle of the batch.
C3_Witness ==
  /\ pc = "done"
  /\ Len(hunks) = 2
  /\ validationMode = "normalized"
  /\ hunks[1].lines # <<>>
  /\ Passes(hunks, 1, "strict")
  /\ ~Passes(hunks, 2, "strict")

\* The header lines of the diff, in input order.
HeaderLinesOf(ls) == SelectSeq(ls, LAMBDA l : startsWith(l, <<"@", "@">>))

\* C4: a HunkValidationFailed error names oldStart + 1, the number the
\* header carries, of the first hunk in input order that does not pass
\* normalized validation, and that hunk fails strict validation too.
C4_ReportedLine ==
  outcome.kind = "HunkValidationFailed" =>
    /\ ~AllPass(originalLines, hunks, "normalized")
    /\ vi = FirstNotPassing(originalLines, hunks, "normalized")
    /\ outcome.line = hunks[vi].oldStart + 1
    /\ outcome.line = parseInt(matchHeader(HeaderLinesOf(diffLines)[vi]).g1)
    /\ validateHunk(originalLines, hunks[vi], "strict") = "false"
    /\ validateHunk(originalLines, hunks[vi], "normalized") = "false"

\* The second hunk of a diff is reported: the first one passed.
C4_Witness ==
  /\ outcome.kind = "HunkValidationFailed"
  /\ vi = 2
  /\ outcome.line = 2
  /\ hunks[2].lines # <<>>
  /\ OldEnd(hunks[2]) <= Len(originalLines)

\* C5: a call ends with content or with one of the two error kinds
\* MalformedHunkHeader and HunkValidationFailed, and with nothing else.
C5_TwoErrorKinds ==
  Ended => outcome.kind \in {"content", "MalformedHunkHeader", "HunkValidationFailed"}

\* The lines a hunk puts in the place of its old region of the original:
\* the original's line for a context line, the text of an add line.
RECURSIVE Replacement(_, _, _)
Replacement(orig, hunk, k) ==
  IF k > Len(hunk.lines) THEN <<>>
  ELSE (IF hunk.lines[k].type = "context"
        THEN <<orig[hunk.oldStart + OldLines(hunk, k - 1) + 1]>>
        ELSE IF hunk.lines[k].type = "add" THEN <<hunk.lines[k].content>>
        ELSE <<>>) \o Replacement(orig, hunk, k + 1)

Min(a, b) == IF a <= b THEN a ELSE b
Max(a, b) == IF a >= b THEN a ELSE b

\* The original with the old region of each of the hunks k.. replaced, read
\* from position pos (zero-based) on.
RECURSIVE Replaced(_, _, _, _)
Replaced(orig, hs, k, pos) ==
  IF k > Len(hs) THEN SubSeq(orig, pos + 1, Len(orig))
  ELSE SubSeq(orig, pos + 1, Min(hs[k].oldStart, Len(orig)))
         \o Replacement(orig, hs[k], 1)
         \o Replaced(orig, hs, k + 1, Max(pos, OldEnd(hs[k])))

\* Hunks listed in non-decreasing oldStart order with old regions that do
\* not overlap.
AscendingDisjoint(hs) ==
  \A k \in 1..(Len(hs) - 1) :
    hs[k].oldStart <= hs[k + 1].oldStart /\ OldEnd(hs[k]) <= hs[k + 1].oldStart

\* C2: for a batch of non-overlapping hunks in non-decreasing oldStart
\* order, each accepted against the original, the call returns the original
\* with every hunk's old region replaced, all at once, by the hunk's context
\* and add lines.
C2_SimultaneousReplacement ==
  (pc = "done" /\ AscendingDisjoint(hunks)) =>
    outcome = Returned(joinLF(Replaced(originalLines, hunks, 1, 0)))

\* The same, for the batches whose hunks all start inside the original or
\* right at its end.
C2_InsideOriginal ==
  (/\ pc = "done"
   /\ AscendingDisjoint(hunks)
   /\ \A k \in 1..Len(hunks) : hunks[k].oldStart <= Len(originalLines)) =>
    outcome = Returned(joinLF(Replaced(originalLines, hunks, 1, 0)))

\* C6, as the specification has it: applying a diff to the content its own
\* application returned fails with HunkValidationFailed.
C6_SecondApplicationFails ==
  pc = "done" => applyUnifiedDiff(outcome.text, unifiedDiff).kind = "HunkValidationFailed"

\* The first hunk of the diff begins with a delete line followed directly by
\* an add line with another text, white space at the ends aside.
FirstHunkReplacesLine ==
  /\ Len(hunks) >= 1
  /\ Len(hunks[1].lines) >= 2
  /\ hunks[1].lines[1].type = "delete"
  /\ hunks[1].lines[2].type = "add"
  /\ trim(hunks[1].lines[1].content) # trim(hunks[1].lines[2].content)

\* C6, amended: when the first hunk of an applied diff begins with a delete
\* line directly followed by an add line of another trimmed text, applying
\* the diff to the returned content fails with HunkValidationFailed at that
\* hunk.
C6_ReplacedLineFailsSecondTime ==
  (pc = "done" /\ FirstHunkReplacesLine) =>
    applyUnifiedDiff(outcome.text, unifiedDiff)
      = HunkValidationFailed(hunks[1].oldStart + 1)

C6_Witness ==
  /\ pc = "done"
  /\ FirstHunkReplacesLine
  /\ Len(hunks) = 2

\* s without every CR that stands right before an LF.
RECURSIVE DropCrBeforeLf(_, _)
DropCrBeforeLf(s, i) ==
  IF i > Len(s) THEN <<>>
  ELSE (IF s[i] = CR /\ i < Len(s) /\ s[i + 1] = LF THEN <<>> ELSE <<s[i]>>)
         \o DropCrBeforeLf(s, i + 1)

CrlfToLf(s) == DropCrBeforeLf(s, 1)

HasCRLF(s) == \E i \in 1..(Len(s) - 1) : s[i] = CR /\ s[i + 1] = LF

\* C7: a diff that parses to zero hunks never fails, and the call returns the
\* original with each CRLF replaced by LF and nothing else changed.
C7_ZeroHunks ==
  (/\ pc \notin {"start", "parse"}
   /\ outcome.kind # "MalformedHunkHeader"
   /\ hunks = <<>>) =>
    /\ pc # "failed"
    /\ pc = "done" => outcome = Returned(CrlfToLf(originalContent))

\* A zero-hunk diff that is not empty, on an original with a CRLF and a CR
\* that stays.
C7_Witness ==
  /\ pc = "done"
  /\ hunks = <<>>
  /\ unifiedDiff # <<>>
  /\ HasCRLF(originalContent)
  /\ \E i \in 1..Len(outcome.text) : outcome.text[i] = CR

\* C8: the call on texts that are LF-only texts with some LF replaced by CRLF
\* ends as the call on the LF-only texts does: the same content or the same
\* error.
C8_LineEndingInvariance ==
  (/\ Ended
   /\ ~HasCRLF(CrlfToLf(originalContent))
   /\ ~HasCRLF(CrlfToLf(unifiedDiff))) =>
    outcome = applyUnifiedDiff(CrlfToLf(originalContent), CrlfToLf(unifiedDiff))

\* CRLF in the original and twice in the diff, and a hunk applied.
C8_Witness ==
  /\ pc = "done"
  /\ applied # <<>>
  /\ HasCRLF(originalContent)
  /\ HasCRLF(unifiedDiff)
  /\ HasCRLF(CrlfToLf(unifiedDiff)) = FALSE
  /\ Len(unifiedDiff) - Len(CrlfToLf(unifiedDiff)) = 2
  /\ ~HasCRLF(CrlfToLf(originalContent))

\* What the hunks before hunk j add to the position of a line.
RECURSIVE NetShift(_, _)
NetShift(hs, j) ==
  IF j <= 1 THEN 0
  ELSE NetShift(hs, j - 1) + AddLines(hs[j - 1]) - DeleteLines(hs[j - 1])

\* The zero-based place in the original of line k of hunk j, and the place
\* of what stands for it in the output.
OrigPos(hs, j, k) == hs[j].oldStart + OldLines(hs[j], k - 1)

FinalPos(hs, j, k) ==
  hs[j].oldStart
    + Cardinality({i \in 1..(k - 1) : hs[j].lines[i].type \in {"context", "add"}})
    + NetShift(hs, j)

ContextLines(hs) ==
  {jk \in (1..Len(hs)) \X (1..MaxDiffLines + 1) :
     jk[2] <= Len(hs[jk[1]].lines) /\ hs[jk[1]].lines[jk[2]].type = "context"}

TextsOfHunk(hunk, types) ==
  {hunk.lines[k].content : k \in {i \in 1..Len(hunk.lines) : hunk.lines[i].type \in types}}

TextsOf(hs, types) == UNION {TextsOfHunk(hs[j], types) : j \in 1..Len(hs)}

\* The text of a context line differs from the original's line at its place.
DiffersFromOriginal(hs, jk) ==
  hs[jk[1]].lines[jk[2]].content # originalLines[OrigPos(hs, jk[1], jk[2]) + 1]

\* C9: in the output of an accepted batch (hunks non-overlapping and in
\* non-decreasing order), the line at the place of a context line is the
\* original's exact line, also when the diff's text differs from it by
\* white space; a text of a context or delete line is in the output only as
\* a line of the original or as the text of an add line.
C9_ContextKeepsOriginalText ==
  (pc = "done" /\ AscendingDisjoint(hunks)) =>
    /\ \A jk \in ContextLines(hunks) :
         lineAt(result, FinalPos(hunks, jk[1], jk[2]))
           = originalLines[OrigPos(hunks, jk[1], jk[2]) + 1]
    /\ outcome.text = joinLF(result)
    /\ \A i \in 1..Len(result) :
         result[i] \in TextsOf(hunks, {"context", "delete"}) =>
           \/ result[i] \in TextsOf(hunks, {"add"})
           \/ \E n \in 1..Len(originalLines) : originalLines[n] = result[i]

\* Accepted under the normalized fallback: a context line of the second of
\* two hunks differs from the original's line.
C9_Witness ==
  /\ pc = "done"
  /\ AscendingDisjoint(hunks)
  /\ validationMode = "normalized"
  /\ Len(hunks) = 2
  /\ hunks[1].lines # <<>>
  /\ \E jk \in ContextLines(hunks) : jk[1] = 2 /\ DiffersFromOriginal(hunks, jk)

\* C10, as claimed: a hunk applied before another has an oldStart at least
\* as large, whatever the order of the hunks in the diff.
C10_DescendingOldStart ==
  \A i, j \in 1..Len(applied) : i < j => applied[i].oldStart >= applied[j].oldStart

RECURSIVE AppliedInTurn(_, _, _)
AppliedInTurn(lines, hs, k) ==
  IF k > Len(hs) THEN lines ELSE AppliedInTurn(applyHunk(lines, hs[k]), hs, k + 1)

AscendingOldStart(hs) ==
  \A k \in 1..(Len(hs) - 1) : hs[k].oldStart <= hs[k + 1].oldStart

\* C10, amended: hunks are applied in reverse input order, the last hunk of
\* the diff first, each on the line sequence the previous application left;
\* that is descending oldStart order when the diff lists its hunks in
\* non-decreasing oldStart order.
C10_ReverseInputOrder ==
  /\ \A k \in 1..Len(applied) : applied[k] = hunks[Len(hunks) - k + 1]
  /\ pc \in {"apply", "done"} => result = AppliedInTurn(originalLines, applied, 1)
  /\ AscendingOldStart(hunks) => C10_DescendingOldStart

\* Two hunks listed in decreasing oldStart order, both applied: the one with
\* the smaller oldStart first.
C10_Witness ==
  /\ Len(applied) = 2
  /\ applied[1].oldStart < applied[2].oldStart
  /\ applied[1].lines # <<>>
  /\ applied[2].lines # <<>>

\* The first line that begins with '@@' and does not match the header
\* pattern (1-based), 0 when there is none.
FirstMalformed(ls) ==
  LET bad == {i \in 1..Len(ls) :
                startsWith(ls[i], <<"@", "@">>) /\ ~matchHeader(ls[i]).matched}
  IN IF bad = {} THEN 0 ELSE CHOOSE i \in bad : \A j \in bad : i <= j

\* C11: a diff with a line that begins with '@@' and does not match the
\* header pattern fails with MalformedHunkHeader carrying the text of the
\* first such line, and no hunk has been validated or applied; a diff without
\* such a line never fails with MalformedHunkHeader.
C11_MalformedHeaderFirst ==
  pc \notin {"start", "parse"} =>
    IF FirstMalformed(diffLines) # 0
    THEN /\ pc = "failed"
         /\ outcome = MalformedHunkHeader(diffLines[FirstMalformed(diffLines)])
         /\ hunks = <<>> /\ vi = 1 /\ validationMode = "strict"
         /\ result = <<>> /\ applied = <<>>
    ELSE outcome.kind # "MalformedHunkHeader"

\* The parse failure is reported for a diff whose well-formed hunk, read
\* before the malformed line, would have been rejected by validation.
C11_Witness ==
  /\ pc = "failed"
  /\ outcome.kind = "MalformedHunkHeader"
  /\ outcome.text = BadHeaderLine
  /\ validateAndApply(originalLines,
                      parseUnifiedDiffHunks(
                        SubSeq(diffLines, 1, FirstMalformed(diffLines) - 1)).hunks).kind
       = "HunkValidationFailed"

\* The diff is one header '@@ -0,0 +1,n @@' followed by n add lines, n >= 1.
OnlyAdds ==
  /\ Len(diffLines) >= 2
  /\ Len(diffLines) - 1 <= MaxBodyLines
  /\ diffLines[1] = Header(0, 0, 1, Len(diffLines) - 1)
  /\ \A i \in 2..Len(diffLines) : startsWith(diffLines[i], <<"+">>)

\* The diff is one header '@@ -1,n +0,0 @@' followed by n delete lines that
\* name, white space at the ends aside, the n >= 1 lines of the original.
DeletesAll ==
  /\ Len(diffLines) >= 2
  /\ Len(diffLines) - 1 <= MaxBodyLines
  /\ diffLines[1] = Header(1, Len(diffLines) - 1, 0, 0)
  /\ Len(splitLF(originalContent)) = Len(diffLines) - 1
  /\ \A i \in 2..Len(diffLines) :
       /\ startsWith(diffLines[i], <<"-">>)
       /\ trim(substring1(diffLines[i])) = trim(splitLF(originalContent)[i - 1])

\* C12: on the empty original a hunk headed '@@ -0,0 +1,n @@' with n add
\* lines returns the n added texts joined by LF; on an original of n >= 1
\* lines a hunk headed '@@ -1,n +0,0 @@' that deletes the n lines returns the
\* empty string.
C12_EmptyBothWays ==
  Ended =>
    /\ (originalContent = <<>> /\ OnlyAdds) =>
          outcome = Returned(joinLF([i \in 1..(Len(diffLines) - 1)
                                       |-> substring1(diffLines[i + 1])]))
    /\ (originalContent # <<>> /\ DeletesAll) => outcome = Returned(<<>>)

\* Two lines added to the empty original.
C12_Witness ==
  /\ pc = "done"
  /\ originalContent = <<>>
  /\ OnlyAdds
  /\ Len(applied) = 1
  /\ Len(applied[1].lines) = 2

\* Two lines deleted, nothing left.
C12_DeletedAll ==
  /\ pc = "done"
  /\ originalContent # <<>>
  /\ DeletesAll
  /\ Len(applied) = 1
  /\ Len(applied[1].lines) = 2

\* C13: with the steps of two calls interleaved in any order, each call ends
\* as the same call run alone: with the outcome that is a function of its
\* own originalContent and unifiedDiff.
C13_CallsShareNoState ==
  /\ Ended => outcome = applyUnifiedDiff(originalContent, unifiedDiff)
  /\ other.pc \in {"done", "failed"} =>
       other.outcome = applyUnifiedDiff(other.originalContent, other.unifiedDiff)

\* Both calls have returned different contents, each having applied a hunk,
\* after being switched while both were under way.
C13_Witness ==
  /\ pc = "done"
  /\ other.pc = "done"
  /\ other.mixed
  /\ applied # <<>>
  /\ other.applied # <<>>
  /\ outcome # other.outcome

\* C14: when a hunk of an accepted batch of non-overlapping hunks in
\* non-decreasing oldStart order is about to be applied, every line of the
\* current sequence below the end of the hunk's old region is the original's
\* line at the same index, and the hunk passes validation against the
\* current sequence as it did against the original.
C14_LowerRegionUntouched ==
  (pc = "apply" /\ ai >= 0 /\ AscendingDisjoint(hunks)) =>
    /\ \A i \in 1..Min(OldEnd(hunks[ai + 1]), Len(result)) :
         i <= Len(originalLines) /\ result[i] = originalLines[i]
    /\ validateHunk(result, hunks[ai + 1], validationMode) = "true"

\* The same, for the batches whose hunks all start inside the original or
\* right at its end.
C14_InsideOriginal ==
  (/\ pc = "apply" /\ ai >= 0
   /\ AscendingDisjoint(hunks)
   /\ \A k \in 1..Len(hunks) : hunks[k].oldStart <= Len(originalLines)) =>
    /\ \A i \in 1..Min(OldEnd(hunks[ai + 1]), Len(result)) :
         i <= Len(originalLines) /\ result[i] = originalLines[i]
    /\ validateHunk(result, hunks[ai + 1], validationMode) = "true"

\* The context and delete lines of a hunk, by their place in the hunk.
OldLineAt(hunk) ==
  {k \in 1..Len(hunk.lines) : hunk.lines[k].type \in {"context", "delete"}}

\* Line k of the hunk names the line of lines it stands at: the cursor is
\* oldStart plus the number of context and delete lines before line k.
Names(lines, hunk, k, mode) ==
  LET at == hunk.oldStart + OldLines(hunk, k - 1)
  IN /\ at >= 0
     /\ at < Len(lines)
     /\ IF mode = "strict" THEN lines[at + 1] = hunk.lines[k].content
        ELSE trim(lines[at + 1]) = trim(hunk.lines[k].content)

\* C15: validateHunk passes a hunk only if oldStart plus the number of its
\* context and delete lines is at most the number of original lines.
C15_PassesOnlyInside ==
  pc \notin {"start", "parse"} =>
    \A k \in 1..Len(hunks), mode \in {"strict", "normalized"} :
      validateHunk(originalLines, hunks[k], mode) = "true" =>
        OldEnd(hunks[k]) <= Len(originalLines)

\* The walk of the cursor: a hunk passes exactly when each of its context
\* and delete lines names the original's line at oldStart plus the number of
\* context and delete lines before it (add lines neither move the cursor nor
\* are compared), and a hunk that has a context or delete line passes only
\* if its old region ends inside the original.
C15_CursorWalk ==
  pc \notin {"start", "parse"} =>
    \A k \in 1..Len(hunks), mode \in {"strict", "normalized"} :
      /\ validateHunk(originalLines, hunks[k], mode) = "true"
           <=> \A j \in OldLineAt(hunks[k]) : Names(originalLines, hunks[k], j, mode)
      /\ (validateHunk(originalLines, hunks[k], mode) = "true"
            /\ OldLineAt(hunks[k]) # {}) => OldEnd(hunks[k]) <= Len(originalLines)

\* The old region of hunk h lies inside the line sequence L.
RegionInside(L, h) == h.oldStart >= 0 /\ OldEnd(h) <= Len(L)

\* What the claim says applyHunk makes of L and h.
Shape(L, h) ==
  SubSeq(L, 1, h.oldStart) \o Replacement(L, h, 1) \o SubSeq(L, OldEnd(h) + 1, Len(L))

\* C16: a turn of the application loop on the sequence L and a hunk h whose
\* old region lies inside L leaves the lines of L below oldStart, then for
\* the hunk's lines in order L's current line for a context line, nothing
\* for a delete line and the hunk's text for an add line, then the lines of
\* L from the end of the old region on; its length is |L| minus the delete
\* lines plus the add lines.
C16_ApplyHunkShape ==
  [][(/\ pc = "apply"
      /\ Len(applied') = Len(applied) + 1
      /\ RegionInside(result, applied'[Len(applied')])) =>
        /\ result' = Shape(result, applied'[Len(applied')])
        /\ Len(result') = Len(result) - DeleteLines(applied'[Len(applied')])
                            + AddLines(applied'[Len(applied')])]_vars

\* A hunk that starts at the second line of a two-line original, deletes it
\* and adds a line, has been applied.
C16_Witness ==
  /\ Len(applied) = 1
  /\ Len(hunks) = 1
  /\ Len(originalLines) = 2
  /\ applied[1].oldStart = 1
  /\ DeleteLines(applied[1]) = 1
  /\ AddLines(applied[1]) = 1
  /\ RegionInside(originalLines, applied[1])
  /\ Len(result) = 2

\* A well-formed header line with other numbers after its old start: the
\* counts given (9 and 8, which no hunk of the model has), or left out.
OtherNumbers(line, given) ==
  IF startsWith(line, <<"@", "@">>) /\ matchHeader(line).matched
  THEN <<"@", "@", SP, "-">> \o matchHeader(line).g1
         \o (IF given THEN <<",", "9", SP, "+", "7", ",", "8">> ELSE <<SP, "+", "7">>)
         \o <<SP, "@", "@">>
  ELSE line

\* The diff with every header rewritten so.
WithOtherNumbers(D, given) ==
  joinLF([i \in 1..Len(splitLF(D)) |-> OtherNumbers(splitLF(D)[i], given)])

\* C17: the call ends the same way on every diff that differs from this one
\* only in the old count, the new start and the new count of its headers:
\* as the call on the diff with these numbers replaced, and as the call on
\* the diff with the counts left out.
C17_HeaderCountsUnread ==
  Ended =>
    /\ outcome = applyUnifiedDiff(originalContent, WithOtherNumbers(unifiedDiff, TRUE))
    /\ outcome = applyUnifiedDiff(originalContent, WithOtherNumbers(unifiedDiff, FALSE))

\* A hunk whose header counts are not those of its lines has been applied
\* and has changed the original.
C17_Witness ==
  /\ pc = "done"
  /\ Len(applied) >= 1
  /\ hunks[1].oldCount # OldLines(hunks[1], Len(hunks[1].lines))
  /\ hunks[1].newCount # Len(hunks[1].lines) - DeleteLines(hunks[1])
  /\ DeleteLines(hunks[1]) >= 1
  /\ result # originalLines
  /\ WithOtherNumbers(unifiedDiff, TRUE) # unifiedDiff

\* The places of the header lines of a diff, in input order.
RECURSIVE Ascending(_)
Ascending(S) ==
  IF S = {} THEN <<>>
  ELSE LET m == CHOOSE i \in S : \A j \in S : i <= j
       IN <<m>> \o Ascending(S \ {m})

HeaderPlaces(ls) == Ascending({i \in 1..Len(ls) : startsWith(ls[i], <<"@", "@">>)})

\* The line after the last line that belongs to the header at place p.
NextHeaderPlace(ls, p) ==
  LET later == {i \in (p + 1)..Len(ls) : startsWith(ls[i], <<"@", "@">>)}
  IN IF later = {} THEN Len(ls) + 1 ELSE CHOOSE i \in later : \A j \in later : i <= j

\* A content line by its marker, the marker stripped.
Marked(line) ==
  [type |-> IF line[1] = SP THEN "context" ELSE IF line[1] = "-" THEN "delete" ELSE "add",
   content |-> Tail(line)]

\* The content lines between the header at place p and the next header.
ContentAfter(ls, p) ==
  LET own == SelectSeq(SubSeq(ls, p + 1, NextHeaderPlace(ls, p) - 1),
                       LAMBDA l : l # <<>> /\ l[1] \in {SP, "-", "+"})
  IN [k \in 1..Len(own) |-> Marked(own[k])]

\* A line of the diff that is neither header nor content line stands between
\* a header and a content line of the same hunk.
DroppedInsideHunk(ls) ==
  \E i \in 2..(Len(ls) - 1) :
    /\ ~startsWith(ls[i], <<"@", "@">>)
    /\ ~IsContentLine(ls[i])
    /\ IsContentLine(ls[i + 1])

\* C18: the parser returns one hunk for each header line, in input order,
\* with the header's numbers; its lines are the lines between its header and
\* the next that begin with space, '-' or '+', in order, typed by the marker
\* and without it; every other line, the empty line included, is dropped
\* and does not close the hunk.
C18_OneHunkPerHeader ==
  (pc \notin {"start", "parse"} /\ outcome.kind # "MalformedHunkHeader") =>
    /\ Len(hunks) = Len(HeaderPlaces(diffLines))
    /\ \A j \in 1..Len(hunks) :
         /\ hunks[j].lines = ContentAfter(diffLines, HeaderPlaces(diffLines)[j])
         /\ hunks[j].oldStart
              = parseInt(matchHeader(diffLines[HeaderPlaces(diffLines)[j]]).g1) - 1

\* An empty line stands between the header and a content line, which the
\* hunk holds.
C18_Witness ==
  /\ pc \notin {"start", "parse"}
  /\ outcome.kind # "MalformedHunkHeader"
  /\ Len(hunks) = 1
  /\ DroppedInsideHunk(diffLines)
  /\ diffLines[2] = <<>>
  /\ Len(hunks[1].lines) = 1

\* Two hunks, the first with a content line.
C18_TwoHunks ==
  /\ pc \notin {"start", "parse"}
  /\ Len(hunks) = 2
  /\ Len(hunks[1].lines) = 1
  /\ hunks[1].oldStart # hunks[2].oldStart

\* The hunk, taken alone, is valid against the original: each of its context
\* and delete lines names the original's line at its place, white space at
\* the ends aside (a line named exactly is named so too).
ValidAlone(lines, hunk) ==
  \A j \in OldLineAt(hunk) : Names(lines, hunk, j, "normalized")

RegionsOverlap(g, h) == g.oldStart < OldEnd(h) /\ h.oldStart < OldEnd(g)

\* C19: a batch whose hunks are each valid against the original is never
\* rejected, whatever the order of the hunks and whether or not their old
\* regions overlap: the call raises no error and what it returns is content.
C19_OrderAndOverlapUnchecked ==
  (/\ pc \notin {"start", "parse"}
   /\ outcome.kind # "MalformedHunkHeader"
   /\ \A k \in 1..Len(hunks) : ValidAlone(originalLines, hunks[k])) =>
    /\ pc # "failed"
    /\ Ended => outcome.kind = "content"

\* Content returned for two hunks that delete the same line of the original.
C19_Witness ==
  /\ pc = "done"
  /\ outcome.kind = "content"
  /\ Len(hunks) = 2
  /\ DeleteLines(hunks[1]) >= 1
  /\ DeleteLines(hunks[2]) >= 1
  /\ RegionsOverlap(hunks[1], hunks[2])

\* Content returned for two hunks listed in decreasing oldStart order, each
\* with a context or delete line.
C19_Decreasing ==
  /\ pc = "done"
  /\ outcome.kind = "content"
  /\ Len(hunks) = 2
  /\ hunks[1].oldStart > hunks[2].oldStart
  /\ OldLineAt(hunks[1]) # {}
  /\ OldLineAt(hunks[2]) # {}

\* The fields of the store the transition bookkeeping is about.
Bookkeeping(state) ==
  <<state.currentState, state.previousState, state.stateHistory>>

\* The fields of the store named with it: plan and progress as well.
WholeStore(state) ==
  <<state.currentState, state.previousState, state.currentPlan,
    state.executionProgress, state.stateHistory>>

\* The state the switch of processEvent aims at for an event.
Target(event) == switchOn(agentStateStore, event).newState

Successors(state) == validTransitions[state]

\* C20 as stated: every change of currentState goes to a successor in the
\* table, and every event whose target state is not a successor of the
\* current state leaves currentState, previousState, plan, progress and
\* history as they were.  RESET received in IDLE aims at IDLE, which is no
\* successor of IDLE, and still clears the progress a rejected plan left.
C20_NonSuccessorChangesNothing ==
  \A event \in Events :
    /\ processEvent(agentStateStore, event).currentState # agentStateStore.currentState
         => processEvent(agentStateStore, event).currentState
              \in Successors(agentStateStore.currentState)
    /\ Target(event) \notin Successors(agentStateStore.currentState)
         => WholeStore(processEvent(agentStateStore, event)) = WholeStore(agentStateStore)

\* What any event does to the store, by its target state.
EventsKeepTable ==
  \A event \in Events :
    /\ Target(event) \in Successors(agentStateStore.currentState)
         => Bookkeeping(processEvent(agentStateStore, event)) =
              <<Target(event), agentStateStore.currentState,
                Append(agentStateStore.stateHistory,
                       [state |-> Target(event), event |-> event])>>
    /\ (Target(event) \notin Successors(agentStateStore.currentState)
        /\ Target(event) # agentStateStore.currentState)
         => processEvent(agentStateStore, event) = agentStateStore
    /\ Target(event) = agentStateStore.currentState
         => /\ Bookkeeping(processEvent(agentStateStore, event)) =
                 Bookkeeping(agentStateStore)
            /\ processEvent(agentStateStore, event).settings = agentStateStore.settings
            /\ event.type # "RESET"
                 => processEvent(agentStateStore, event) = agentStateStore
            /\ event.type = "RESET"
                 => processEvent(agentStateStore, event) =
                      [agentStateStore EXCEPT
                         !.currentPlan = null, !.messageComplexity = null,
                         !.error = null,
                         !.executionProgress = DEFAULT_STATE.executionProgress]

\* A step of the store changes currentState only along the table, noting
\* the state it left and one more entry of history.
StepKeepsTable ==
  agentStateStore'.currentState # agentStateStore.currentState
    => /\ agentStateStore'.currentState \in Successors(agentStateStore.currentState)
       /\ agentStateStore'.previousState = agentStateStore.currentState
       /\ Len(agentStateStore'.stateHistory) = Len(agentStateStore.stateHistory) + 1

\* C20, amended: every change of currentState goes from a state to one of
\* its successors in the table; an event whose target is another state that
\* is no successor leaves the store unchanged; an event whose target is the
\* current state leaves currentState, previousState and history unchanged,
\* and only RESET then changes anything: it clears plan, complexity, error
\* and progress.
C20_TransitionsFollowTable == []EventsKeepTable /\ [][StepKeepsTable]_vars

\* A rejected plan left the store in IDLE with its complexity and progress:
\* COMPLEXITY_ANALYZED is refused here and RESET clears them without a
\* transition.
C20_Witness ==
  /\ agentStateStore.currentState = "IDLE"
  /\ agentStateStore.previousState = "AWAITING_APPROVAL"
  /\ agentStateStore.messageComplexity # null
  /\ agentStateStore.executionProgress.totalSteps > 0
  /\ \E event \in Events :
       /\ event.type = "COMPLEXITY_ANALYZED"
       /\ Target(event) \notin Successors("IDLE")
       /\ ~setsStore(agentStateStore, event)

\* The state COMPLEXITY_ANALYZED aims at (lines 517-531 and 539-543).
AfterAnalysis(event) ==
  IF event.requiresPlanning /\ agentStateStore.settings.autoPlanning
  THEN "PLANNING" ELSE "EXECUTING"

\* C21: a COMPLEXITY_ANALYZED event received while the agent is IDLE records
\* the event's complexity in messageComplexity and moves the agent to
\* PLANNING when requiresPlanning and settings.autoPlanning hold, otherwise
\* to EXECUTING.  The table of canTransition lists only ANALYZING after
\* IDLE, so processEvent drops the event and its complexity.
C21_AnalysisAllowedInIdle ==
  \A event \in Events :
    (event.type = "COMPLEXITY_ANALYZED" /\ agentStateStore.currentState = "IDLE")
      => /\ processEvent(agentStateStore, event).messageComplexity = event.complexity
         /\ processEvent(agentStateStore, event).currentState = AfterAnalysis(event)

\* What the code does with the event in IDLE: nothing at all, nothing saved.
C21_AnalysisDroppedInIdle ==
  \A event \in Events :
    (event.type = "COMPLEXITY_ANALYZED" /\ agentStateStore.currentState = "IDLE")
      => /\ processEvent(agentStateStore, event) = agentStateStore
         /\ ~setsStore(agentStateStore, event)

\* The same event received in ANALYZING does what the branch says.
C21_AnalysisInAnalyzing ==
  \A event \in Events :
    (event.type = "COMPLEXITY_ANALYZED" /\ agentStateStore.currentState = "ANALYZING")
      => /\ processEvent(agentStateStore, event).messageComplexity = event.complexity
         /\ processEvent(agentStateStore, event).currentState = AfterAnalysis(event)

\* A PlanApproval is up for the plan of the store.
AwaitingApproval ==
  agentStateStore.currentState = "AWAITING_APPROVAL" /\ agentStateStore.currentPlan # null

\* C22: rejecting a plan with the 'direct' option goes directly to
\* execution: from AWAITING_APPROVAL the events PLAN_REJECTED then
\* EXECUTION_STARTED of handleRejectWithFeedback leave the agent in
\* EXECUTING.  PLAN_REJECTED moves the agent to IDLE, where
\* EXECUTION_STARTED is not handled.
C22_DirectRejectionExecutes ==
  AwaitingApproval =>
    \A userMessage \in BOOLEAN, regenerated \in Regenerations :
      handleRejectWithFeedback(agentStateStore, "direct", userMessage,
                               regenerated).currentState = "EXECUTING"

\* What the code does for 'direct': the agent ends in IDLE without a plan,
\* exactly as after PLAN_REJECTED alone.
C22_DirectRejectionEndsIdle ==
  AwaitingApproval =>
    \A userMessage \in BOOLEAN, regenerated \in Regenerations :
      /\ handleRejectWithFeedback(agentStateStore, "direct", userMessage,
                                  regenerated).currentState = "IDLE"
      /\ handleRejectWithFeedback(agentStateStore, "direct", userMessage, regenerated)
           = processEvent(agentStateStore, Event("PLAN_REJECTED"))

\* C23: requesting a new plan with feedback puts the regenerated plan up for
\* approval: from AWAITING_APPROVAL, after regeneration succeeds, the events
\* PLAN_REJECTED then PLAN_GENERATED(newPlan) leave the agent in
\* AWAITING_APPROVAL with currentPlan = newPlan and
\* executionProgress.totalSteps = the number of its steps.  PLAN_GENERATED is
\* handled only in PLANNING, and the agent is IDLE after PLAN_REJECTED.
C23_NewPlanUpForApproval ==
  AwaitingApproval =>
    \A newPlan \in Plans :
      /\ handleRejectWithFeedback(agentStateStore, "feedback", TRUE,
                                  Some(newPlan)).currentState = "AWAITING_APPROVAL"
      /\ handleRejectWithFeedback(agentStateStore, "feedback", TRUE,
                                  Some(newPlan)).currentPlan = Some(newPlan)
      /\ handleRejectWithFeedback(agentStateStore, "feedback", TRUE,
                                  Some(newPlan)).executionProgress.totalSteps
           = Len(newPlan.steps)

\* What the code does: the new plan is dropped, the agent ends in IDLE
\* without a plan and with the progress of the rejected plan.
C23_NewPlanDropped ==
  AwaitingApproval =>
    \A newPlan \in Plans :
      /\ handleRejectWithFeedback(agentStateStore, "feedback", TRUE,
                                  Some(newPlan)).currentState = "IDLE"
      /\ handleRejectWithFeedback(agentStateStore, "feedback", TRUE,
                                  Some(newPlan)).currentPlan = null
      /\ handleRejectWithFeedback(agentStateStore, "feedback", TRUE,
                                  Some(newPlan)).executionProgress
           = agentStateStore.executionProgress

\* The longest sequence of events looked at when asking where the agent can
\* get.
MaxEvents == 3

\* The events other than RESET.
EventsButReset == {event \in Events : event.type # "RESET"}

\* Some sequence of at most n events other than RESET takes the store to one
\* of the states of targets.
RECURSIVE CanReach(_, _, _)
CanReach(state, targets, n) ==
  \/ state.currentState \in targets
  \/ /\ n > 0
     /\ \E event \in EventsButReset : CanReach(processEvent(state, event), targets, n - 1)

\* C24: from DEBUGGING the agent can resume: some sequence of events without
\* RESET moves it to PLANNING or to EXECUTING, the successors the table lists
\* for DEBUGGING besides IDLE.  No case of the switch handles any event but
\* RESET in DEBUGGING.
C24_DebuggingCanResume ==
  agentStateStore.currentState = "DEBUGGING"
    => CanReach(agentStateStore, {"PLANNING", "EXECUTING"}, MaxEvents)

\* What the code does: in DEBUGGING every event but RESET leaves the store
\* as it is, so no sequence of them, however long, leaves DEBUGGING.
C24_DebuggingLeftOnlyByReset ==
  agentStateStore.currentState = "DEBUGGING"
    => /\ \A event \in EventsButReset :
            processEvent(agentStateStore, event) = agentStateStore
       /\ processEvent(agentStateStore, Event("RESET")).currentState = "IDLE"

\* The table does list them.
C24_TableListsResuming == {"PLANNING", "EXECUTING"} \subseteq Successors("DEBUGGING")

\* resetAgentState(), which is processEvent({ type: 'RESET' }).
resetAgentState(state) == processEvent(state, Event("RESET"))

\* C25: RESET clears state and resets to idle from every agent state: after
\* processEvent(RESET) in any of the seven states, currentState is IDLE,
\* currentPlan, messageComplexity and error are null and executionProgress
\* is the default, while settings are unchanged.
C25_ResetClears ==
  /\ agentStateStore.currentState \in AgentStates
  /\ resetAgentState(agentStateStore).currentState = "IDLE"
  /\ resetAgentState(agentStateStore).currentPlan = null
  /\ resetAgentState(agentStateStore).messageComplexity = null
  /\ resetAgentState(agentStateStore).error = null
  /\ resetAgentState(agentStateStore).executionProgress = DEFAULT_STATE.executionProgress
  /\ resetAgentState(agentStateStore).settings = agentStateStore.settings

\* The last entry of the history, if any, is of an event of this type.
LastEventIs(type) ==
  /\ agentStateStore.stateHistory # <<>>
  /\ agentStateStore.stateHistory[Len(agentStateStore.stateHistory)].event.type = type

\* RESET has taken the agent out of DEBUGGING, where an error was set, with
\* settings that are not the default ones.
C25_Witness ==
  /\ LastEventIs("RESET")
  /\ agentStateStore.currentState = "IDLE"
  /\ agentStateStore.previousState = "DEBUGGING"
  /\ agentStateStore.error = null
  /\ agentStateStore.settings # DEFAULT_STATE.settings

\* C30: from the default store and after any sequence of processEvent,
\* updatePlanStep and updateSettings calls, whenever currentState is
\* AWAITING_APPROVAL the currentPlan is not null, so that needsPlanApproval
\* is true exactly when the state is AWAITING_APPROVAL, and whenever
\* currentState is IDLE as the result of PLAN_REJECTED or RESET the
\* currentPlan is null; RESET and PLAN_REJECTED leave no plan in IDLE.
C30_PlanWhileAwaiting ==
  /\ agentStateStore.currentState = "AWAITING_APPROVAL"
       => agentStateStore.currentPlan # null
  /\ needsPlanApproval(agentStateStore)
       <=> agentStateStore.currentState = "AWAITING_APPROVAL"
  /\ (agentStateStore.currentState = "IDLE"
      /\ (LastEventIs("PLAN_REJECTED") \/ LastEventIs("RESET")))
       => agentStateStore.currentPlan = null
  /\ \A type \in {"PLAN_REJECTED", "RESET"} :
       (processEvent(agentStateStore, Event(type)).currentState = "IDLE"
        /\ setsStore(agentStateStore, Event(type)))
         => processEvent(agentStateStore, Event(type)).currentPlan = null

\* A plan is up for approval and updatePlanStep has changed one of its steps.
C30_Witness ==
  /\ needsPlanApproval(agentStateStore)
  /\ \E i \in 1..Len(agentStateStore.currentPlan[1].steps) :
       agentStateStore.currentPlan[1].steps[i].status = "completed"
  /\ agentStateStore.executionProgress.completedSteps > 0

\* The agent is IDLE as the result of PLAN_REJECTED.
C30_IdleAfterRejection ==
  /\ agentStateStore.currentState = "IDLE"
  /\ LastEventIs("PLAN_REJECTED")
  /\ agentStateStore.previousState = "AWAITING_APPROVAL"

\* The lines of a text as applyUnifiedDiff splits an original.
LinesOfText(text) == {splitOriginal(text)[i] : i \in 1..Len(splitOriginal(text))}

\* The lines a successful call may return: those of the normalized original
\* and the texts of the add lines of the hunks.
AllowedLines ==
  {originalLines[i] : i \in 1..Len(originalLines)} \cup TextsOf(hunks, {"add"})

\* C27: every line of the content a successful applyUnifiedDiff returns is a
\* line of the line-ending-normalized original or the text of an add line of
\* one of the hunks, also for an accepted hunk of add lines only whose
\* oldStart is greater than the number of original lines.  For such a hunk
\* applyHunk copies lines that are not there, and they are joined as empty
\* lines.
C27_OnlyKnownLines ==
  (pc = "done" /\ outcome.kind = "content")
    => LinesOfText(outcome.text) \subseteq AllowedLines

\* What the code keeps to: every element of the joined sequence is a known
\* line or the undefined that applyHunk copied from past the end.
C27_KnownLinesOrPadding ==
  (pc = "done" /\ outcome.kind = "content")
    => \A i \in 1..Len(result) : result[i] \in AllowedLines \cup {undefined}

\* A call that returned content with an undefined element joined into it.
C27_Padded ==
  /\ pc = "done" /\ outcome.kind = "content"
  /\ \E i \in 1..Len(result) : result[i] = undefined

\* The place of the first line that starts with '@@', 0 when there is none.
FirstMarker(ls) ==
  IF \E i \in 1..Len(ls) : startsWith(ls[i], <<"@", "@">>)
  THEN CHOOSE i \in 1..Len(ls) :
         /\ startsWith(ls[i], <<"@", "@">>)
         /\ \A j \in 1..(i - 1) : ~startsWith(ls[j], <<"@", "@">>)
  ELSE 0

\* The lines from the first marker on, none when there is no marker.
FromFirstMarker(ls) ==
  IF FirstMarker(ls) = 0 THEN <<>> ELSE SubSeq(ls, FirstMarker(ls), Len(ls))

\* C28: lines beginning with space, '-' or '+' before the first hunk header
\* belong to no hunk and are dropped: the parser gives what it gives for the
\* lines from the first header on; so a diff text without any '@@' line
\* parses to zero hunks, and applyUnifiedDiff returns the normalized
\* original without error.
C28_LinesBeforeFirstHeaderDropped ==
  /\ pc = "parse" =>
       /\ parseUnifiedDiffHunks(diffLines)
            = parseUnifiedDiffHunks(FromFirstMarker(diffLines))
       /\ FirstMarker(diffLines) = 0 =>
            /\ parseUnifiedDiffHunks(diffLines).hunks = <<>>
            /\ ~parseUnifiedDiffHunks(diffLines).failed
            /\ applyUnifiedDiff(originalContent, unifiedDiff)
                 = Returned(replaceCRLF(originalContent))
  /\ (pc \notin {"start", "parse"} /\ FirstMarker(diffLines) = 0) =>
       /\ hunks = <<>>
       /\ pc # "failed"
       /\ pc = "done" => outcome = Returned(replaceCRLF(originalContent))

\* A diff of a delete line and an add line without any header has been
\* applied to an original that holds the line to delete.
C28_Witness ==
  /\ pc = "done"
  /\ FirstMarker(diffLines) = 0
  /\ \E i, j \in 1..Len(diffLines) :
       diffLines[i] = <<"-", "a">> /\ diffLines[j] = <<"+", "c">>
  /\ originalLines = <<<<"a">>>>
  /\ outcome = Returned(<<"a">>)

\* Content lines stand before the header of a hunk that has been applied.
C28_ContentBeforeHeader ==
  /\ pc = "done"
  /\ FirstMarker(diffLines) > 1
  /\ IsContentLine(diffLines[1])
  /\ Len(hunks) = 1
  /\ hunks[1].lines # <<>>

\* ',count' as a header carries it, nothing when the count was left out.
countPart(ds) == IF ds = <<>> THEN <<>> ELSE <<",">> \o ds

\* A line of the inverse diff: the header with old and new swapped, an add
\* line as a delete line, a delete line as an add line, any other line kept.
inverseLine(line) ==
  IF startsWith(line, <<"@", "@">>) /\ matchHeader(line).matched
  THEN <<"@", "@", SP, "-">> \o matchHeader(line).g3 \o countPart(matchHeader(line).g4)
         \o <<SP, "+">> \o matchHeader(line).g1 \o countPart(matchHeader(line).g2)
         \o <<SP, "@", "@">>
  ELSE IF startsWith(line, <<"+">>) THEN <<"-">> \o substring1(line)
  ELSE IF startsWith(line, <<"-">>) THEN <<"+">> \o substring1(line)
  ELSE line

\* The inverse of a diff text, line by line.
inverseDiff(D) ==
  joinLF([i \in 1..Len(splitLF(D)) |-> inverseLine(splitLF(D)[i])])

\* A call on an original without CR whose diff had one hunk, accepted in
\* strict mode, has returned.
SingleHunkApplied ==
  /\ pc = "done"
  /\ Len(hunks) = 1
  /\ validationMode = "strict"
  /\ \A i \in 1..Len(originalContent) : originalContent[i] # CR
  /\ \A i \in 1..Len(unifiedDiff) : unifiedDiff[i] # CR

\* C29: round trip: for every LF-only original O and single-hunk diff D
\* accepted in strict mode, applying the inverse diff of D to apply(O, D)
\* succeeds and returns O.
C29_RoundTrip ==
  SingleHunkApplied =>
    applyUnifiedDiff(outcome.text, inverseDiff(unifiedDiff)) = Returned(originalContent)

\* The one hunk keeps to the original: it starts at a line number from 1 on
\* and its old lines end inside the original.
HunkInsideOriginal ==
  hunks[1].oldStart >= 0 /\ OldEnd(hunks[1]) <= Len(originalLines)
    /\ hunks[1].oldStart <= Len(originalLines)

\* Where the round trip does hold: the header's new start is its old start,
\* the hunk keeps to the original, and the sequence joined is not the one
\* empty line, which is returned as the text of no line at all.
C29_RoundTripOfLines ==
  (SingleHunkApplied /\ HunkInsideOriginal /\ hunks[1].newStart = hunks[1].oldStart
   /\ result # <<<<>>>>)
    => applyUnifiedDiff(outcome.text, inverseDiff(unifiedDiff)) = Returned(originalContent)

\* An empty line has been added to the empty original: the text returned is
\* the original, and the inverse diff finds no line to delete in it.
C29_EmptyLineAdded ==
  /\ SingleHunkApplied
  /\ originalLines = <<>>
  /\ hunks[1].oldStart = 0
  /\ hunks[1].lines = <<[type |-> "add", content |-> <<>>]>>
  /\ outcome = Returned(<<>>)
  /\ applyUnifiedDiff(outcome.text, inverseDiff(unifiedDiff)).kind = "HunkValidationFailed"

\* The places of the rules that are enabled and match the trimmed message.
Matching(rs, message) ==
  {i \in 1..Len(rs) : rs[i].enabled /\ isMatch(rs[i].pattern, trim(message))}

\* The result of the first rule in list order that is enabled and matches
\* the trimmed message, intercepted = false when there is none.
FirstMatchResult(rs, message) ==
  IF Matching(rs, message) = {} THEN NotIntercepted
  ELSE resultOf(rs[CHOOSE i \in Matching(rs, message) :
                     \A j \in Matching(rs, message) : i <= j],
                trim(message))

\* The rules without the disabled ones.
EnabledOnly(rs) == SelectSeq(rs, LAMBDA r : r.enabled)

\* What the claim says of every message but its first part: disabled rules
\* produce nothing, no enabled match gives intercepted = false, and the
\* store's wouldIntercept is false when the store is not enabled.
FlagsRespected ==
  \A message \in Messages :
    /\ intercept(rules, message) = intercept(EnabledOnly(rules), message)
    /\ Matching(rules, message) = {} => ~intercept(rules, message).intercepted
    /\ ~messageInterceptorState.enabled
         => ~wouldIntercept(messageInterceptorState, rules, message)

\* C26 as stated: after any sequence of addRule, removeRule, toggleRule,
\* updateRule, clearCustomRules and resetToDefaults, intercept(message)
\* returns the result of the first rule in list order that is enabled and
\* matches the trimmed message, a disabled rule never produces a result, a
\* message matching no enabled rule gives intercepted = false, and the
\* store's wouldIntercept is false whenever the store's enabled flag is
\* false.  The empty message is turned away before any rule is looked at,
\* also when an enabled rule matches the empty text.
C26_FirstEnabledMatch ==
  /\ \A message \in Messages :
       intercept(rules, message) = FirstMatchResult(rules, message)
  /\ FlagsRespected

\* The same, the empty message set apart.
RulesInOrder ==
  /\ \A message \in Messages :
       intercept(rules, message) =
         IF message = <<>> THEN NotIntercepted ELSE FirstMatchResult(rules, message)
  /\ FlagsRespected

\* A call of intercept or wouldIntercept returns what the rules and the
\* store of that moment give.
ReturnsByRules ==
  (returned' # returned) =>
    /\ returned'[1].call = "intercept" =>
         /\ returned'[1].message # <<>> =>
              returned'[1].result = Some(FirstMatchResult(rules, returned'[1].message))
         /\ returned'[1].message = <<>> => ~returned'[1].value
    /\ returned'[1].call = "wouldIntercept" =>
         /\ ~messageInterceptorState.enabled => ~returned'[1].value
         /\ messageInterceptorState.enabled =>
              returned'[1].value = intercept(rules, returned'[1].message).intercepted

\* C26, amended: for every message that is not empty intercept returns the
\* result of the first rule in list order that is enabled and matches the
\* trimmed message; the empty message gives intercepted = false whatever the
\* rules; a disabled rule never produces a result; a message matching no
\* enabled rule gives intercepted = false; wouldIntercept is false whenever
\* the store's enabled flag is false.
C26_RuleOrderAndFlags == []RulesInOrder /\ [][ReturnsByRules]_vars

\* With help-command disabled, ' /HELP ' was intercepted by the custom
\* substring rule that stands after the default rules: the result is its
\* transform of the trimmed message.
C26_Witness ==
  /\ returned # null
  /\ returned[1].call = "intercept"
  /\ returned[1].message = <<SP, "/", "H", "E", "L", "P", SP>>
  /\ returned[1].result # null
  /\ returned[1].result[1].transformedMessage = Some(<<"/", "H", "E", "L", "P">>)
  /\ returned[1].result[1].metadata[1].ruleId = Some(CustomId(1))
  /\ ruleIndex(rules, DefaultId("help-command")) # 0
  /\ ~rules[ruleIndex(rules, DefaultId("help-command"))].enabled
  /\ ruleIndex(rules, CustomId(1)) > ruleIndex(rules, DefaultId("help-command"))

\* A rule with the empty pattern is enabled: a blank message is intercepted
\* by it, the empty message is not.
C26_EmptyPatternRule ==
  /\ \E i \in 1..Len(rules) : rules[i].enabled /\ rules[i].pattern = StringPattern(<<>>)
  /\ intercept(rules, <<SP>>).intercepted
  /\ ~intercept(rules, <<>>).intercepted
  /\ ~messageInterceptorState.enabled

====
